---- MODULE Spec2Model ----
(***************************************************************************)
(* Model of the session and command-execution engine of netauto-platform   *)
(* (src/automation/network_automation.py, juniper_manager.py,              *)
(* juniper_pyez.py, models.py, views.py).                                  *)
(*                                                                         *)
(* A task is one call of execute_network_task.  The transport library      *)
(* (Netmiko ConnectHandler, PyEZ Device) is the environment: every call    *)
(* into it either returns or raises, chosen nondeterministically.          *)
(* Exception messages are sequences of text segments (outermost wrapper    *)
(* first), so that the substring tests of the code can be evaluated.       *)
(***************************************************************************)
EXTENDS Integers, Sequences, FiniteSets, TLC

VARIABLES
    pc,             \* per task: position in execute_network_task and its callees
    task_type,      \* per task: the task_type argument
    device_params,  \* per task: the dict object passed by the caller (aliased by the manager)
    callerParams,   \* per task: the caller's dict as it was when the call was made
    driver,         \* per task: self.driver is a JuniperDeviceManager
    connection,     \* per task: self.connection (0 = None, else a transport id)
    dev,            \* per task: driver.juniper_dev.dev (0 = None, else a transport id)
    exc,            \* per task: the exception in flight (<<>> = none)
    result,         \* per task: the local variable result
    ret,            \* per task: the tuple returned by execute_network_task
    attempt,        \* per task: loop variable of execute_config_commands
    rcAttempt,      \* per task: loop variable of _reconnect_if_needed
    eccRet,         \* per task: where execute_config_commands returns to
    rcRet,          \* per task: where _reconnect_if_needed returns to
    rv,             \* per task: the value returned by the last callee
    step,           \* per task: which call of a multi-call task body is running
    hist,           \* per task: record of what the call has done so far
    juniperMgr,     \* module global: JuniperDeviceManager was importable
    nextTr,         \* next fresh transport object id
    openTr,         \* transport objects whose channel is open
    users,          \* per transport id: the tasks that have read or written it
    chunk,          \* state of one _execute_commands_in_chunks call
    hw,             \* state of one _execute_huawei_config call
    probe           \* what a health check finds on the transport: remote_conn, find_prompt()

\* never changed after the call is made
inputVars == <<task_type, callerParams, juniperMgr>>
\* the session objects
sessVars == <<connection, dev, nextTr, openTr, users>>
\* loop variables and return addresses
loopVars == <<attempt, rcAttempt, eccRet, rcRet>>

vars == <<pc, device_params, driver, exc, result, ret, rv, step, hist,
          inputVars, sessVars, loopVars, chunk, hw, probe>>

------------------------------------------------------------------------------
(* Bounds of the model *)

\* transport objects the environment hands out in one run
MaxTransports == 3

\* the two logical tasks of the concurrency model
Tasks == {"A", "B"}

NoExc == <<>>
NoRet == [success |-> FALSE, output |-> <<"unset">>, error |-> <<"unset">>]

------------------------------------------------------------------------------
(* Inputs *)

DeviceTypes == {"cisco_ios", "huawei", "juniper_junos", "linux"}

\* One representative per class of branch of the dispatcher: a one-batch
\* configuration builder, a show command, the Juniper EVPN builders, the AE
\* builder, the fabric builders that catch exceptions, and no branch at all.
TaskTypes == {"vlan_create", "show_version", "evpn_instance", "ae_config",
              "spine_underlay", "multi_tenant_deployment", "device_diagnostics",
              "bogus_task"}

\* Device.get_connection_params
get_connection_params(dt) ==
    [k \in {"device_type", "host", "username", "password", "port", "timeout"} |->
        CASE k = "device_type" -> dt
          [] k = "host"        -> "10.0.0.1"
          [] k = "username"    -> "admin"
          [] k = "password"    -> "pw"
          [] k = "port"        -> "22"
          [] k = "timeout"     -> "30"]

------------------------------------------------------------------------------
(* Text helpers *)

\* 'tok' in segment.lower(), for the segments and tokens the model uses
SegHas(seg, tok) ==
    CASE seg = "socket is closed"      -> tok = "socket is closed"
      [] seg = "read timed out"        -> tok = "timed out"
      [] seg = "broken pipe"           -> tok = "broken pipe"
      [] seg = "Connection timeout:"   -> tok \in {"connection", "timeout"}
      [] seg = "Connection failed:"    -> tok = "connection"
      [] seg = "Connection failed"     -> tok = "connection"
      [] seg = "Connection lost and reconnection failed after 3 attempts:"
                                       -> tok = "connection"
      [] OTHER                         -> FALSE

\* tok in str(e).lower()
Contains(msg, tok) == \E i \in 1..Len(msg) : SegHas(msg[i], tok)

\* 'juniper' in device_type, 'huawei' in device_type, 'cisco' in device_type
InType(word, dt) ==
    CASE word = "juniper" -> dt = "juniper_junos"
      [] word = "huawei"  -> dt = "huawei"
      [] word = "cisco"   -> dt = "cisco_ios"
      [] OTHER            -> FALSE

\* dict.setdefault(k, v) and dict.pop(k, None) and d[k] = v
setdefault(d, k, v) == IF k \in DOMAIN d THEN d ELSE d @@ (k :> v)
pop(d, k) == [x \in (DOMAIN d) \ {k} |-> d[x]]
setitem(d, k, v) == [x \in (DOMAIN d) \cup {k} |-> IF x = k THEN v ELSE d[x]]
get(d, k, dflt) == IF k \in DOMAIN d THEN d[k] ELSE dflt

\* the errors a transport call can raise: one connection-shaped, one not
EnvErrors == {"socket is closed", "invalid input"}

------------------------------------------------------------------------------
(* NetworkDeviceManager: construction, connect, disconnect *)

\* NetworkDeviceManager._enhance_connection_params: the dict it leaves behind
_enhance_connection_params(d) ==
    LET dt == get(d, "device_type", "")
        d1 == setdefault(d, "timeout", "20")
        d2 == setdefault(d1, "conn_timeout", "10")
        d3 == setdefault(d2, "fast_cli", "True")
        d4 == setdefault(d3, "global_delay_factor", "0.5")
        d5 == IF get(d4, "debug_mode", "False") = "False" THEN pop(d4, "session_log") ELSE d4
    IN  IF InType("huawei", dt)
        THEN LET h1 == setdefault(d5, "global_delay_factor", "1.0")
                 h2 == setitem(h1, "fast_cli", "False")
             IN  IF "secret" \notin DOMAIN h2 /\ "enable_password" \notin DOMAIN h2
                    /\ "password" \in DOMAIN h2
                 THEN setitem(h2, "secret", h2["password"])
                 ELSE h2
        ELSE IF InType("cisco", dt)
        THEN setdefault(setdefault(d5, "global_delay_factor", "0.5"), "fast_cli", "True")
        ELSE d5

\* self.device_type
device_type(t) == get(device_params[t], "device_type", "")

\* NetworkDeviceManager.__init__: the backend driver that is selected
SelectDriver(dt) == dt # "" /\ InType("juniper", dt) /\ juniperMgr

\* the fields of hist; primed: _fast_session_setup has run on the transport
\* that self.connection holds; rcExhausted, driverFailed, emergencyExit: of the
\* running execute_config_commands call
NoHist == [opens |-> 0, closes |-> 0, enters |-> 0, opened |-> {}, closeCalls |-> {},
           issued |-> FALSE, openFailed |-> FALSE,
           closedInBody |-> FALSE, eccRaised |-> FALSE, closeRaised |-> FALSE,
           bodyDone |-> FALSE, bodyResult |-> <<"unset">>, bodyExc |-> NoExc,
           rcWaits |-> <<>>, rcOutcomes |-> <<>>,
           interactive |-> FALSE, transactional |-> FALSE, rcExhausted |-> FALSE,
           primed |-> FALSE, driverFailed |-> FALSE, emergencyExit |-> FALSE,
           candidate |-> FALSE, execs |-> 0, retriedOther |-> FALSE]

\* execute_network_task up to the with statement: NetworkDeviceManager(device_params)
NetworkDeviceManager_init(t) ==
    /\ pc[t] = "start"
    /\ driver' = [driver EXCEPT ![t] = SelectDriver(device_type(t))]
    /\ connection' = [connection EXCEPT ![t] = 0]
    /\ device_params' = [device_params EXCEPT ![t] = _enhance_connection_params(@)]
    /\ pc' = [pc EXCEPT ![t] = "enter"]
    /\ UNCHANGED <<dev, nextTr, openTr, users, exc, result, ret, rv, step, hist,
                   inputVars, loopVars, chunk, hw, probe>>

\* outcomes of ConnectHandler(**device_params) and of JuniperPyEZDevice.connect
ConnectOutcomes == {"ok", "timeout", "auth", "error"}
JuniperOutcomes == {"ok", "ctor_fail", "open_fail"}

\* the NetworkAutomationError raised by NetworkDeviceManager.connect
ConnectError(o) ==
    CASE o = "timeout" -> <<"Connection timeout:", "no route to host">>
      [] o = "auth"    -> <<"Authentication failed:", "bad password">>
      [] OTHER         -> <<"Connection failed:", "invalid input">>

\* a ConnectHandler that hands out a transport already open to the device
\* (a per-host connection cache) in place of a fresh one
ConnectHandler_cached(t) == IF openTr # {} THEN CHOOSE i \in openTr : TRUE ELSE nextTr

\* ConnectHandler(**device_params): a fresh transport object
ConnectHandler(t) == nextTr

\* NetworkDeviceManager.connect, called by __enter__; o is what the library does.
\* On the driver path the result of driver.connect() is returned and dropped.
connect(t, o, okPc, raisePc, first) ==
    IF driver[t]
    THEN /\ o \in JuniperOutcomes
         /\ (o # "ctor_fail") => nextTr <= MaxTransports
         /\ dev' = [dev EXCEPT ![t] = IF o = "ctor_fail" THEN @ ELSE nextTr]
         /\ nextTr' = IF o = "ctor_fail" THEN nextTr ELSE nextTr + 1
         /\ openTr' = IF o = "ok" THEN openTr \cup {nextTr} ELSE openTr
         /\ users' = IF o = "ctor_fail" THEN users
                     ELSE [users EXCEPT ![nextTr] = @ \cup {t}]
         /\ pc' = [pc EXCEPT ![t] = okPc]
         /\ hist' = [hist EXCEPT ![t].opens = @ + 1,
                                 ![t].enters = @ + 1,
                                 ![t].opened = IF o = "ok" THEN @ \cup {nextTr} ELSE @,
                                 ![t].openFailed = @ \/ (first /\ o # "ok")]
         /\ UNCHANGED <<connection, exc>>
    ELSE /\ o \in ConnectOutcomes
         /\ (o = "ok") => nextTr <= MaxTransports
         /\ connection' = [connection EXCEPT ![t] =
                              IF o = "ok" THEN ConnectHandler(t) ELSE @]
         /\ nextTr' = IF o = "ok" THEN nextTr + 1 ELSE nextTr
         /\ openTr' = IF o = "ok" THEN openTr \cup {connection'[t]} ELSE openTr
         /\ users' = IF o = "ok" THEN [users EXCEPT ![connection'[t]] = @ \cup {t}]
                     ELSE users
         /\ pc' = [pc EXCEPT ![t] = IF o = "ok" THEN okPc ELSE raisePc]
         /\ exc' = [exc EXCEPT ![t] = IF o = "ok" THEN @ ELSE ConnectError(o)]
         /\ hist' = [hist EXCEPT ![t].opens = @ + 1,
                                 ![t].enters = @ + 1,
                                 ![t].opened = IF o = "ok" THEN @ \cup {nextTr} ELSE @,
                                 ![t].primed = (o = "ok"),
                                 ![t].openFailed = @ \/ (first /\ o # "ok")]
         /\ UNCHANGED dev

\* NetworkDeviceManager.__enter__ of the with statement of execute_network_task
ManagerEnter(t) ==
    /\ pc[t] = "enter"
    /\ \E o \in ConnectOutcomes \cup JuniperOutcomes :
          connect(t, o, "body", "return", TRUE)
    /\ UNCHANGED <<device_params, driver, result, ret, rv, step, inputVars, loopVars, chunk, hw, probe>>

\* NetworkDeviceManager.disconnect; closeOk is whether the transport's own
\* disconnect returns.  JuniperPyEZDevice.disconnect swallows a failure,
\* the Netmiko path lets it propagate.  The raised message, or NoExc.
disconnectRaises(t, closeOk) ==
    IF driver[t] THEN NoExc
    ELSE IF connection[t] # 0 /\ ~closeOk THEN <<"socket is closed">>
    ELSE NoExc

\* the transport object disconnect() acts on ({0}: none)
disconnectTarget(t) == {IF driver[t] THEN dev[t] ELSE connection[t]}

\* the open transports after disconnect()
disconnectOpen(t, closeOk) ==
    IF closeOk THEN openTr \ disconnectTarget(t) ELSE openTr

disconnectUsers(t) ==
    [i \in DOMAIN users |-> IF i \in disconnectTarget(t) THEN users[i] \cup {t}
                            ELSE users[i]]

\* NetworkDeviceManager.__exit__ of the with statement of execute_network_task:
\* disconnect() is called; what it raises replaces the exception in flight
ManagerExit(t) ==
    /\ pc[t] = "exit"
    /\ \E closeOk \in BOOLEAN :
          /\ openTr' = disconnectOpen(t, closeOk)
          /\ users' = disconnectUsers(t)
          /\ exc' = [exc EXCEPT ![t] =
                        IF disconnectRaises(t, closeOk) # NoExc
                        THEN disconnectRaises(t, closeOk) ELSE @]
          /\ hist' = [hist EXCEPT ![t].closes = @ + 1,
                                  ![t].closeCalls = @ \cup (disconnectTarget(t) \ {0}),
                                  ![t].closeRaised = disconnectRaises(t, closeOk) # NoExc,
                                  ![t].bodyDone = TRUE,
                                  ![t].bodyResult = result[t],
                                  ![t].bodyExc = exc[t]]
    /\ pc' = [pc EXCEPT ![t] = "return"]
    /\ UNCHANGED <<device_params, driver, connection, dev, nextTr, result, ret, rv, step,
                   inputVars, loopVars, chunk, hw, probe>>

\* an except clause that returns the partial result next to the error:
\* return False, result, str(e)
TaskReturn_partial(t) ==
    /\ pc[t] = "return"
    /\ ret' = [ret EXCEPT ![t] =
                  IF exc[t] = NoExc
                  THEN [success |-> TRUE, output |-> result[t], error |-> <<>>]
                  ELSE [success |-> FALSE, output |-> result[t], error |-> exc[t]]]
    /\ pc' = [pc EXCEPT ![t] = "done"]
    /\ rv' = [rv EXCEPT ![t] = <<"unset">>]
    /\ step' = [step EXCEPT ![t] = 0]
    /\ attempt' = [attempt EXCEPT ![t] = 0]
    /\ rcAttempt' = [rcAttempt EXCEPT ![t] = 0]
    /\ eccRet' = [eccRet EXCEPT ![t] = "none"]
    /\ rcRet' = [rcRet EXCEPT ![t] = "none"]
    /\ UNCHANGED <<device_params, driver, exc, result, hist, inputVars, sessVars, chunk, hw, probe>>

\* execute_network_task: return True, result, ""  /  except: return False, "", str(e).
\* The frames of the call and of its callees are gone: their locals are reset.
TaskReturn(t) ==
    /\ pc[t] = "return"
    /\ ret' = [ret EXCEPT ![t] =
                  IF exc[t] = NoExc
                  THEN [success |-> TRUE, output |-> result[t], error |-> <<>>]
                  ELSE [success |-> FALSE, output |-> <<>>, error |-> exc[t]]]
    /\ pc' = [pc EXCEPT ![t] = "done"]
    /\ rv' = [rv EXCEPT ![t] = <<"unset">>]
    /\ step' = [step EXCEPT ![t] = 0]
    /\ attempt' = [attempt EXCEPT ![t] = 0]
    /\ rcAttempt' = [rcAttempt EXCEPT ![t] = 0]
    /\ eccRet' = [eccRet EXCEPT ![t] = "none"]
    /\ rcRet' = [rcRet EXCEPT ![t] = "none"]
    /\ UNCHANGED <<device_params, driver, exc, result, hist, inputVars, sessVars, chunk, hw, probe>>

------------------------------------------------------------------------------
(* Juniper driver (juniper_manager.py, juniper_pyez.py) *)

\* JuniperDeviceManager._ensure_connected followed by one library call on
\* juniper_dev.dev (run_cli, or load_set and commit).  co is what connect()
\* does when dev is None, o what the library call does.  A call on a Device
\* that is not open raises.
driver_call(t, co, o, okVal, retPc, isEcc) ==
    LET needConnect == dev[t] = 0
        fresh       == needConnect /\ co # "ctor_fail"
        dev1        == IF fresh THEN nextTr ELSE dev[t]
        open1       == IF needConnect /\ co = "ok" THEN openTr \cup {nextTr} ELSE openTr
        connected   == ~needConnect \/ co = "ok"
        isOpen      == dev1 \in open1
        raised      == IF ~connected THEN <<"Connection failed">>
                       ELSE IF ~isOpen THEN <<"device session is not open">>
                       ELSE IF o = "ok" THEN NoExc
                       ELSE <<o>>
    IN  /\ co \in JuniperOutcomes
        /\ ~needConnect => co = "ok"
        /\ fresh => nextTr <= MaxTransports
        /\ (~connected \/ ~isOpen) => o = "ok"
        /\ dev' = [dev EXCEPT ![t] = dev1]
        /\ nextTr' = IF fresh THEN nextTr + 1 ELSE nextTr
        /\ openTr' = open1
        /\ users' = IF dev1 # 0 THEN [users EXCEPT ![dev1] = @ \cup {t}] ELSE users
        /\ exc' = [exc EXCEPT ![t] = raised]
        /\ rv' = [rv EXCEPT ![t] = IF raised = NoExc THEN okVal ELSE @]
        /\ pc' = [pc EXCEPT ![t] = retPc]
        /\ hist' = [hist EXCEPT ![t].opens = IF needConnect THEN @ + 1 ELSE @,
                                ![t].opened = IF needConnect /\ co = "ok"
                                              THEN @ \cup {nextTr} ELSE @,
                                ![t].issued = @ \/ (connected /\ isOpen),
                                ![t].transactional = @ \/ (isEcc /\ connected),
                                ![t].candidate = @ \/ (isEcc /\ raised = <<"CommitError">>),
                                ![t].eccRaised = @ \/ (isEcc /\ raised # NoExc)]
        /\ UNCHANGED connection

\* what load_set / commit can raise
JuniperErrors == {"ConfigLoadError", "CommitError"}

------------------------------------------------------------------------------
(* NetworkDeviceManager: health check, reconnection, command execution *)

max_reconnect_attempts == 3
max_retries == 2

\* every use of self.connection by task t is recorded on the transport
Touch(t) == IF connection[t] # 0
            THEN [users EXCEPT ![connection[t]] = @ \cup {t}]
            ELSE users

\* the retry test of execute_config_commands
IsConnectionError(msg) ==
    \/ Contains(msg, "socket is closed")
    \/ Contains(msg, "connection")
    \/ Contains(msg, "broken pipe")
    \/ Contains(msg, "timeout")

\* the wrapper each _execute_*_config puts around what the transport raised
DriverError(dt, e) ==
    IF InType("cisco", dt) THEN <<"Cisco configuration failed:", e>>
    ELSE IF InType("huawei", dt) THEN <<"Huawei configuration failed:", e>>
    ELSE <<"Configuration failed:", e>>

\* an except clause that allows one retry more than max_retries
ecc_except_extra(t, e, h) ==
    IF IsConnectionError(e) /\ attempt[t] < max_retries + 1
    THEN /\ attempt' = [attempt EXCEPT ![t] = @ + 1]
         /\ pc' = [pc EXCEPT ![t] = "rc"]
         /\ rcRet' = [rcRet EXCEPT ![t] = "ecc_after_rc"]
         /\ exc' = [exc EXCEPT ![t] = NoExc]
         /\ hist' = [hist EXCEPT ![t] = h]
    ELSE /\ exc' = [exc EXCEPT ![t] = <<"Configuration failed:">> \o e]
         /\ pc' = [pc EXCEPT ![t] = eccRet[t]]
         /\ hist' = [hist EXCEPT ![t] = [h EXCEPT !.eccRaised = TRUE]]
         /\ UNCHANGED <<attempt, rcRet>>

\* the except clause of execute_config_commands for exception e; h is the
\* task's record of what it has done, as it is when the exception arrives
ecc_except(t, e, h) ==
    IF IsConnectionError(e) /\ attempt[t] < max_retries
    THEN /\ attempt' = [attempt EXCEPT ![t] = @ + 1]
         /\ pc' = [pc EXCEPT ![t] = "rc"]
         /\ rcRet' = [rcRet EXCEPT ![t] = "ecc_after_rc"]
         /\ exc' = [exc EXCEPT ![t] = NoExc]
         /\ hist' = [hist EXCEPT ![t] =
                        [h EXCEPT !.retriedOther = @ \/ ~IsConnectionError(e)]]
    ELSE /\ exc' = [exc EXCEPT ![t] = <<"Configuration failed:">> \o e]
         /\ pc' = [pc EXCEPT ![t] = eccRet[t]]
         /\ hist' = [hist EXCEPT ![t] = [h EXCEPT !.eccRaised = TRUE]]
         /\ UNCHANGED <<attempt, rcRet>>

\* h once the dialect driver has been handed the batch: one more execution in
\* this call of execute_config_commands
Executed(h) == [h EXCEPT !.issued = TRUE, !.interactive = TRUE, !.execs = @ + 1]

\* NetworkDeviceManager.execute_config_commands, entry
execute_config_commands(t) ==
    /\ pc[t] = "ecc"
    /\ IF driver[t]
       THEN /\ \E co \in JuniperOutcomes, o \in {"ok"} \cup JuniperErrors :
                  driver_call(t, co, o, <<"Diff", "Commit">>, eccRet[t], TRUE)
            /\ UNCHANGED <<loopVars>>
       ELSE IF connection[t] = 0
       THEN /\ exc' = [exc EXCEPT ![t] = <<"Not connected to device">>]
            /\ pc' = [pc EXCEPT ![t] = eccRet[t]]
            /\ hist' = [hist EXCEPT ![t].eccRaised = TRUE]
            /\ UNCHANGED <<rv, sessVars, loopVars>>
       ELSE /\ attempt' = [attempt EXCEPT ![t] = 0]
            /\ pc' = [pc EXCEPT ![t] = "ecc_internal"]
            /\ hist' = [hist EXCEPT ![t].rcExhausted = FALSE,
                                    ![t].driverFailed = FALSE,
                                    ![t].emergencyExit = FALSE,
                                    ![t].execs = 0,
                                    ![t].retriedOther = FALSE]
            /\ UNCHANGED <<exc, rv, sessVars, rcAttempt, eccRet, rcRet>>
    /\ UNCHANGED <<device_params, driver, result, ret, step, inputVars, chunk, hw, probe>>

\* the except clause of the dialect driver sends the mode-exit token before it
\* raises: _execute_huawei_config sends "quit" (and swallows what that raises),
\* _execute_cisco_config and _execute_generic_config send nothing
emergency_exit(dt) == ~InType("cisco", dt) /\ InType("huawei", dt)

\* _execute_config_commands_internal for one attempt: the dialect driver runs
\* the batch on self.connection and returns its output or raises
_execute_config_commands_internal(t) ==
    /\ pc[t] = "ecc_internal"
    /\ users' = Touch(t)
    /\ \E o \in {"ok"} \cup EnvErrors :
          IF o = "ok"
          THEN /\ rv' = [rv EXCEPT ![t] = <<"config_output">>]
               /\ pc' = [pc EXCEPT ![t] = eccRet[t]]
               /\ hist' = [hist EXCEPT ![t] = Executed(@)]
               /\ UNCHANGED <<exc, attempt, rcRet>>
          ELSE /\ ecc_except(t, DriverError(device_type(t), o),
                               [Executed(hist[t]) EXCEPT
                                               !.driverFailed = TRUE,
                                               !.emergencyExit = emergency_exit(device_type(t))])
               /\ UNCHANGED rv
    /\ UNCHANGED <<device_params, driver, result, ret, step, inputVars,
                   connection, dev, nextTr, openTr, rcAttempt, eccRet, chunk, hw, probe>>

\* what hasattr(self.connection, 'remote_conn') / self.connection.remote_conn
\* gives: no such attribute, None, or the channel
RemoteConns == {"missing", "None", "channel"}

\* what self.connection.find_prompt() gives: it raises, or returns this text
PromptReads == {"raise", "", " ", "\n", " \t\n", "<HUAWEI>", " <HUAWEI>\n",
                "[~HUAWEI]", "Router#", ">"}

\* str.strip() on the texts of PromptReads
strip(text) ==
    CASE text \in {"", " ", "\n", " \t\n"} -> ""
      [] text = " <HUAWEI>\n"               -> "<HUAWEI>"
      [] OTHER                              -> text

\* no health check is running
ProbeIdle == [remote_conn |-> "channel", prompt |-> "<HUAWEI>"]

\* the try block of _check_connection_health, without the bool(... strip())
health_try_nostrip(remote_conn, prompt) ==
    IF remote_conn \in {"missing", "None"} THEN "False"
    ELSE IF prompt = "raise" THEN "raise"
    ELSE IF prompt # "" THEN "True" ELSE "False"

\* the try block of _check_connection_health: what it returns, or "raise"
health_try(remote_conn, prompt) ==
    IF remote_conn \in {"missing", "None"} THEN "False"
    ELSE IF prompt = "raise" THEN "raise"
    ELSE IF prompt # "" /\ strip(prompt) # "" THEN "True" ELSE "False"

\* NetworkDeviceManager._check_connection_health: False without a connection,
\* False when the try block raises, else what the try block returns
_check_connection_health(conn, remote_conn, prompt) ==
    IF conn = 0 THEN FALSE
    ELSE LET r == health_try(remote_conn, prompt)
         IN  IF r = "raise" THEN FALSE ELSE r = "True"

\* one call of _check_connection_health on the transport as probe describes
\* it; the result is handed to the caller
HealthCheck(t) ==
    /\ pc[t] = "health"
    /\ rv' = [rv EXCEPT ![t] =
                 IF _check_connection_health(connection[t], probe.remote_conn, probe.prompt)
                 THEN <<"True">> ELSE <<"False">>]
    /\ pc' = [pc EXCEPT ![t] = "health_done"]
    /\ UNCHANGED <<device_params, driver, exc, result, ret, step, hist, inputVars,
                   sessVars, loopVars, chunk, hw, probe>>

\* the health checks _reconnect_if_needed is run against: a session that
\* answers and one whose prompt read fails
RcProbes == {ProbeIdle, [remote_conn |-> "channel", prompt |-> "raise"]}

\* the backoff 2 ** attempt of the comment in the code ("2, 4, 8 seconds"),
\* slept before every attempt
wait_time_comment(n) == 2 ^ (n + 1)

\* the sleep before reconnection attempt n: none for n = 0, else 2 ** attempt
wait_time(n) == IF n > 0 THEN 2 ^ n ELSE 0

\* the caller's view once _reconnect_if_needed has returned: the record of
\* its attempts goes with its frame
RcFramePopped(h) == [h EXCEPT !.rcWaits = <<>>, !.rcOutcomes = <<>>]

\* NetworkDeviceManager._reconnect_if_needed, up to the retry loop
_reconnect_if_needed(t) ==
    /\ pc[t] = "rc"
    /\ users' = Touch(t)
    /\ \E p \in RcProbes :
          /\ (connection[t] = 0) => p = ProbeIdle
          /\ IF _check_connection_health(connection[t], p.remote_conn, p.prompt)
             THEN /\ rv' = [rv EXCEPT ![t] = <<"True">>]
                  /\ pc' = [pc EXCEPT ![t] = rcRet[t]]
                  /\ UNCHANGED rcAttempt
             ELSE /\ rcAttempt' = [rcAttempt EXCEPT ![t] = 0]
                  /\ pc' = [pc EXCEPT ![t] = "rc_attempt"]
                  /\ UNCHANGED rv
    /\ hist' = [hist EXCEPT ![t].rcWaits = <<>>, ![t].rcOutcomes = <<>>]
    /\ UNCHANGED <<device_params, driver, exc, result, ret, step, inputVars,
                   connection, dev, nextTr, openTr, attempt, eccRet, rcRet, chunk, hw, probe>>

\* one iteration of the loop of _reconnect_if_needed: the old connection is
\* disconnected (a failure is swallowed) and dropped, ConnectHandler is called,
\* the new connection is health-checked
reconnect_attempt(t) ==
    /\ pc[t] = "rc_attempt"
    /\ \E closeOk \in BOOLEAN, o \in {"healthy", "unhealthy", "raise"} :
          LET old    == connection[t]
              open1  == IF old # 0 /\ closeOk THEN openTr \ {old} ELSE openTr
              users1 == Touch(t)
              last   == rcAttempt[t] = max_reconnect_attempts - 1
          IN  /\ (old = 0) => closeOk
              /\ (o # "raise") => nextTr <= MaxTransports
              /\ connection' = [connection EXCEPT ![t] =
                                   IF o = "raise" THEN 0 ELSE ConnectHandler(t)]
              /\ nextTr' = IF o = "raise" THEN nextTr ELSE nextTr + 1
              /\ openTr' = IF o = "raise" THEN open1 ELSE open1 \cup {connection'[t]}
              /\ users' = IF o = "raise" THEN users1
                          ELSE [users1 EXCEPT ![connection'[t]] = @ \cup {t}]
              /\ IF o = "healthy"
                 THEN /\ rv' = [rv EXCEPT ![t] = <<"True">>]
                      /\ pc' = [pc EXCEPT ![t] = rcRet[t]]
                      /\ UNCHANGED <<exc, rcAttempt>>
                 ELSE IF ~last
                 THEN /\ rcAttempt' = [rcAttempt EXCEPT ![t] = @ + 1]
                      /\ UNCHANGED <<pc, exc, rv>>
                 ELSE IF o = "raise"
                 THEN /\ exc' = [exc EXCEPT ![t] =
                            <<"Connection lost and reconnection failed after 3 attempts:",
                              "no route to host">>]
                      /\ pc' = [pc EXCEPT ![t] = rcRet[t]]
                      /\ UNCHANGED <<rv, rcAttempt>>
                 ELSE /\ rv' = [rv EXCEPT ![t] = <<"False">>]
                      /\ pc' = [pc EXCEPT ![t] = rcRet[t]]
                      /\ UNCHANGED <<exc, rcAttempt>>
              /\ hist' = [hist EXCEPT
                     ![t].closeCalls = IF old # 0 THEN @ \cup {old} ELSE @,
                     ![t].opened = IF o = "raise" THEN @ ELSE @ \cup {ConnectHandler(t)},
                     ![t].primed = (o = "healthy"),
                     ![t].rcWaits = Append(@, wait_time(rcAttempt[t])),
                     ![t].rcOutcomes = Append(@, o),
                     ![t].rcExhausted = @ \/ (last /\ o = "raise")]
    /\ UNCHANGED <<device_params, driver, result, ret, step, inputVars,
                   dev, attempt, eccRet, rcRet, chunk, hw, probe>>

\* execute_config_commands after _reconnect_if_needed came back: its result is
\* dropped; what it raised goes to the except clause of the same try
ecc_after_rc(t) ==
    /\ pc[t] = "ecc_after_rc"
    /\ IF exc[t] # NoExc
       THEN ecc_except(t, exc[t], RcFramePopped(hist[t]))
       ELSE /\ pc' = [pc EXCEPT ![t] = "ecc_internal"]
            /\ hist' = [hist EXCEPT ![t] = RcFramePopped(@)]
            /\ UNCHANGED <<exc, attempt, rcRet>>
    /\ UNCHANGED <<device_params, driver, result, ret, rv, step, inputVars,
                   sessVars, rcAttempt, eccRet, chunk, hw, probe>>

\* NetworkDeviceManager.execute_command
execute_command(t, retPc) ==
    IF driver[t]
    THEN /\ \E co \in JuniperOutcomes, o \in {"ok"} \cup EnvErrors :
               driver_call(t, co, o, <<"cli_output">>, retPc, FALSE)
    ELSE IF connection[t] = 0
    THEN /\ exc' = [exc EXCEPT ![t] = <<"Not connected to device">>]
         /\ pc' = [pc EXCEPT ![t] = retPc]
         /\ UNCHANGED <<rv, hist, sessVars>>
    ELSE /\ users' = Touch(t)
         /\ hist' = [hist EXCEPT ![t].issued = TRUE]
         /\ pc' = [pc EXCEPT ![t] = retPc]
         /\ \E o \in {"ok", "empty"} \cup EnvErrors :
               /\ exc' = [exc EXCEPT ![t] = IF o \in EnvErrors
                                            THEN <<"Command failed:", o>> ELSE @]
               /\ rv' = [rv EXCEPT ![t] =
                            CASE o = "ok"    -> <<"show_output">>
                              [] o = "empty" -> <<"No output received from device">>
                              [] OTHER       -> @]
         /\ UNCHANGED <<connection, dev, nextTr, openTr>>

------------------------------------------------------------------------------
(* execute_network_task: the body of the with statement *)

\* the builder of the branch refuses the device type (VLANManager.create_vlan,
\* DeviceInfoManager.get_version, EVPNManager (evpn_l2vpn.py), AEManager,
\* DataCenterFabricManager.__init__)
Supported(tt, dt) ==
    CASE tt \in {"vlan_create", "show_version"} -> InType("cisco", dt) \/ InType("huawei", dt)
      [] tt \in {"evpn_instance", "ae_config"}  -> InType("juniper", dt)
      [] tt \in {"spine_underlay", "multi_tenant_deployment", "device_diagnostics"}
                                                -> InType("huawei", dt)
      [] OTHER                                  -> FALSE

BuilderError(tt) ==
    IF tt \in TaskTypes \ {"bogus_task"}
    THEN <<"Unsupported device type:", "device_type">>
    ELSE <<"Unknown task type:", tt>>

\* the if/elif chain of execute_network_task, up to the first call on the device
Dispatch(t) ==
    /\ pc[t] = "body"
    /\ LET tt == task_type[t]
       IN  IF ~Supported(tt, device_type(t))
           THEN /\ exc' = [exc EXCEPT ![t] = BuilderError(tt)]
                /\ pc' = [pc EXCEPT ![t] = "exit"]
                /\ UNCHANGED <<eccRet, step>>
           ELSE /\ pc' = [pc EXCEPT ![t] =
                      CASE tt = "show_version"       -> "show"
                        [] tt = "ae_config"          -> "ae_enter"
                        [] tt = "device_diagnostics" -> "diag"
                        [] OTHER                     -> "ecc"]
                /\ eccRet' = [eccRet EXCEPT ![t] =
                      CASE tt = "spine_underlay"          -> "overlay_done"
                        [] tt = "multi_tenant_deployment" -> "mt_done"
                        [] OTHER                          -> "body_result"]
                /\ step' = [step EXCEPT ![t] = 1]
                /\ UNCHANGED exc
    /\ UNCHANGED <<device_params, driver, result, ret, rv, hist, inputVars, sessVars,
                   attempt, rcAttempt, rcRet, chunk, hw, probe>>

\* result = manager.<builder>(...): the value of the call, or its exception
BodyResult(t) ==
    /\ pc[t] = "body_result"
    /\ result' = [result EXCEPT ![t] = IF exc[t] = NoExc THEN rv[t] ELSE @]
    /\ pc' = [pc EXCEPT ![t] = "exit"]
    /\ UNCHANGED <<device_params, driver, exc, ret, rv, step, hist, inputVars,
                   sessVars, loopVars, chunk, hw, probe>>

\* DeviceInfoManager.get_version: one execute_command
ShowCommand(t) ==
    /\ pc[t] = "show"
    /\ execute_command(t, "body_result")
    /\ UNCHANGED <<device_params, driver, result, ret, step, inputVars, loopVars, chunk, hw, probe>>

\* configure_spine_underlay: try: self._ensure_evpn_overlay() except Exception: pass,
\* then the main batch
OverlayDone(t) ==
    /\ pc[t] = "overlay_done"
    /\ exc' = [exc EXCEPT ![t] = NoExc]
    /\ pc' = [pc EXCEPT ![t] = "ecc"]
    /\ eccRet' = [eccRet EXCEPT ![t] = "body_result"]
    /\ step' = [step EXCEPT ![t] = 2]
    /\ UNCHANGED <<device_params, driver, result, ret, rv, hist, inputVars, sessVars,
                   attempt, rcAttempt, rcRet, chunk, hw, probe>>

\* deploy_multi_tenant_configuration: the try around execute_config_commands
MultiTenantDone(t) ==
    /\ pc[t] = "mt_done"
    /\ result' = [result EXCEPT ![t] =
                     IF exc[t] = NoExc
                     THEN <<"=== Configuration Summary ===", "=== Device Output ===">> \o rv[t]
                     ELSE <<"ERROR:", "Failed to deploy multi-tenant configuration:">> \o exc[t]]
    /\ exc' = [exc EXCEPT ![t] = NoExc]
    /\ pc' = [pc EXCEPT ![t] = "exit"]
    /\ UNCHANGED <<device_params, driver, ret, rv, step, hist, inputVars, sessVars,
                   loopVars, chunk, hw, probe>>

\* diagnose_device_connectivity: a health check and six execute_command calls,
\* every exception caught and written into the report
diagnose_device_connectivity(t) ==
    /\ pc[t] = "diag"
    /\ users' = Touch(t)
    /\ hist' = [hist EXCEPT ![t].issued = @ \/ connection[t] # 0]
    /\ \E failed \in BOOLEAN :
          result' = [result EXCEPT ![t] =
             <<"=== DEVICE CONNECTIVITY DIAGNOSTICS ===">>
             \o (IF failed \/ connection[t] = 0 THEN <<"FAILED">> ELSE <<"SUCCESS">>)
             \o <<"=== END DIAGNOSTICS ===">>]
    /\ pc' = [pc EXCEPT ![t] = "exit"]
    /\ UNCHANGED <<device_params, driver, exc, ret, rv, step, inputVars,
                   connection, dev, nextTr, openTr, loopVars, chunk, hw, probe>>

\* AEManager.create_ae / configure_ae_unit: `with self.device as dev` enters
\* the manager that execute_network_task has already entered
AEEnter(t) ==
    /\ pc[t] = "ae_enter"
    /\ \E o \in ConnectOutcomes \cup JuniperOutcomes :
          connect(t, o, "ae_body", "exit", FALSE)
    /\ UNCHANGED <<device_params, driver, result, ret, rv, step, inputVars, loopVars, chunk, hw, probe>>

\* the body of that with: if dev.driver: return dev.driver.execute_config_commands(...)
AEBody(t) ==
    /\ pc[t] = "ae_body"
    /\ IF driver[t]
       THEN \E co \in JuniperOutcomes, o \in {"ok"} \cup JuniperErrors :
               driver_call(t, co, o, <<"Diff", "Commit">>, "ae_exit", TRUE)
       ELSE /\ rv' = [rv EXCEPT ![t] = <<"None">>]
            /\ pc' = [pc EXCEPT ![t] = "ae_exit"]
            /\ UNCHANGED <<exc, hist, sessVars>>
    /\ UNCHANGED <<device_params, driver, result, ret, step, inputVars, loopVars, chunk, hw, probe>>

\* the __exit__ of that with (disconnect), then the rest of the ae_config branch:
\* result = create_ae(...); if ip_address and prefix_length: result += ' ' + configure_ae_unit(...)
AEExit(t) ==
    /\ pc[t] = "ae_exit"
    /\ \E closeOk \in BOOLEAN, hasUnit \in BOOLEAN :
          LET raised == disconnectRaises(t, closeOk)
              e1     == IF raised # NoExc THEN raised ELSE exc[t]
              typeErr == step[t] = 2 /\ (rv[t] = <<"None">> \/ result[t] = <<"None">>)
          IN  /\ (step[t] = 2 \/ e1 # NoExc) => hasUnit
              /\ openTr' = disconnectOpen(t, closeOk)
              /\ users' = disconnectUsers(t)
              /\ hist' = [hist EXCEPT ![t].closes = @ + 1, ![t].closedInBody = TRUE,
                                      ![t].closeCalls = @ \cup (disconnectTarget(t) \ {0})]
              /\ exc' = [exc EXCEPT ![t] =
                            IF e1 # NoExc THEN e1
                            ELSE IF typeErr THEN <<"TypeError">> ELSE NoExc]
              /\ result' = [result EXCEPT ![t] =
                            IF e1 # NoExc \/ typeErr THEN @
                            ELSE IF step[t] = 1 THEN rv[t] ELSE @ \o rv[t]]
              /\ pc' = [pc EXCEPT ![t] =
                            IF e1 = NoExc /\ step[t] = 1 /\ hasUnit THEN "ae_enter" ELSE "exit"]
              /\ step' = [step EXCEPT ![t] =
                            IF e1 = NoExc /\ step[t] = 1 /\ hasUnit THEN 2 ELSE @]
    /\ UNCHANGED <<device_params, driver, connection, dev, nextTr, ret, rv, inputVars,
                   loopVars, chunk, hw, probe>>

------------------------------------------------------------------------------
(* DataCenterFabricManager._execute_commands_in_chunks, run by task "A" on its
   connected manager (self.device) *)

max_chunk_retries == 3

\* Python's a // b for b > 0 (floor division, also for negative a)
FloorDiv(a, b) == IF a >= 0 THEN a \div b ELSE -((-a + b - 1) \div b)

\* total_chunks = (len(commands) - 1) // chunk_size + 1
total_chunks(commands, chunk_size) == FloorDiv(Len(commands) - 1, chunk_size) + 1

\* a slice that takes one command too many: commands[i:i + chunk_size + 1]
Slice_overlap(commands, i, chunk_size) ==
    SubSeq(commands, i + 1, IF i + chunk_size + 1 < Len(commands) THEN i + chunk_size + 1
                            ELSE Len(commands))

\* commands[i:i + chunk_size]
Slice(commands, i, chunk_size) ==
    SubSeq(commands, i + 1, IF i + chunk_size < Len(commands) THEN i + chunk_size
                            ELSE Len(commands))

\* the retry test of the chunker's except clause
ChunkIsConnectionError(msg) ==
    \/ Contains(msg, "socket is closed")
    \/ Contains(msg, "connection")
    \/ Contains(msg, "broken pipe")

\* the slices the loop `for i in range(0, len(commands), chunk_size)` takes,
\* from index i on
RECURSIVE Slices(_, _, _)
Slices(commands, i, chunk_size) ==
    IF i < Len(commands)
    THEN <<Slice(commands, i, chunk_size)>> \o Slices(commands, i + chunk_size, chunk_size)
    ELSE <<>>

\* results = [], total_chunks = ..., failed_chunks = 0
ChunkStart(t) ==
    /\ pc[t] = "chunk_start"
    /\ chunk' = [chunk EXCEPT !.results = <<>>, !.failed_chunks = 0, !.i = 0,
                              !.total_chunks = total_chunks(chunk.commands, chunk.chunk_size)]
    /\ pc' = [pc EXCEPT ![t] = "chunk_loop"]
    /\ UNCHANGED <<device_params, driver, exc, result, ret, rv, step, hist, inputVars,
                   sessVars, loopVars, hw, probe>>

\* for i in range(0, len(commands), chunk_size): chunk = commands[i:i + chunk_size]
ChunkLoop(t) ==
    /\ pc[t] = "chunk_loop"
    /\ IF chunk.i < Len(chunk.commands)
       THEN /\ chunk' = [chunk EXCEPT
                   !.chunk = Slice(chunk.commands, chunk.i, chunk.chunk_size),
                   !.slices = Append(@, Slice(chunk.commands, chunk.i, chunk.chunk_size)),
                   !.chunk_num = FloorDiv(chunk.i, chunk.chunk_size) + 1,
                   !.chunk_success = FALSE,
                   !.attempt = 0,
                   !.checked = FALSE,
                   !.periodic = "none"]
            /\ pc' = [pc EXCEPT ![t] = "chunk_try"]
       ELSE /\ pc' = [pc EXCEPT ![t] = "chunk_summary"]
            /\ UNCHANGED chunk
    /\ UNCHANGED <<device_params, driver, exc, result, ret, rv, step, hist, inputVars,
                   sessVars, loopVars, hw, probe>>

\* the head of `for attempt in range(max_chunk_retries)`: the health check before
\* the slice, then execute_config_commands(chunk)
ChunkTry(t) ==
    /\ pc[t] = "chunk_try"
    /\ users' = Touch(t)
    /\ \E p \in RcProbes :
          /\ (connection[t] = 0 \/ ~(chunk.attempt > 0 \/ chunk.failed_chunks > 0)) => p = ProbeIdle
          /\ IF (chunk.attempt > 0 \/ chunk.failed_chunks > 0)
                /\ ~_check_connection_health(connection[t], p.remote_conn, p.prompt)
             THEN /\ pc' = [pc EXCEPT ![t] = "rc"]
                  /\ rcRet' = [rcRet EXCEPT ![t] = "chunk_after_rc"]
                  /\ UNCHANGED eccRet
             ELSE /\ pc' = [pc EXCEPT ![t] = "ecc"]
                  /\ eccRet' = [eccRet EXCEPT ![t] = "chunk_after_ecc"]
                  /\ UNCHANGED rcRet
    /\ chunk' = [chunk EXCEPT !.checked = chunk.attempt > 0 \/ chunk.failed_chunks > 0]
    /\ UNCHANGED <<device_params, driver, exc, result, ret, rv, step, hist, inputVars,
                   connection, dev, nextTr, openTr, attempt, rcAttempt, hw, probe>>

\* an except clause that lets the error of a slice out of the loop when the
\* retries are used up
chunk_except_raise(t) ==
    IF ChunkIsConnectionError(exc[t]) /\ chunk.attempt < max_chunk_retries - 1
    THEN /\ chunk' = [chunk EXCEPT !.attempt = @ + 1]
         /\ pc' = [pc EXCEPT ![t] = "chunk_try"]
    ELSE /\ UNCHANGED chunk
         /\ pc' = [pc EXCEPT ![t] = "chunk_raised"]

\* the except clause of the slice's try, for the exception in exc[t]
chunk_except(t) ==
    IF ChunkIsConnectionError(exc[t]) /\ chunk.attempt < max_chunk_retries - 1
    THEN /\ chunk' = [chunk EXCEPT !.attempt = @ + 1]
         /\ pc' = [pc EXCEPT ![t] = "chunk_try"]
    ELSE /\ chunk' = [chunk EXCEPT !.results =
                         Append(@, [num |-> chunk.chunk_num, failed |-> TRUE, text |-> exc[t]])]
         /\ pc' = [pc EXCEPT ![t] = "chunk_post"]

\* after _reconnect_if_needed inside the try: sleep(2), then execute_config_commands.
\* The callee has returned: its return value and loop counter are dropped.
ChunkAfterReconnect(t) ==
    /\ pc[t] = "chunk_after_rc"
    /\ IF exc[t] # NoExc
       THEN /\ chunk_except(t)
            /\ UNCHANGED eccRet
       ELSE /\ pc' = [pc EXCEPT ![t] = "ecc"]
            /\ eccRet' = [eccRet EXCEPT ![t] = "chunk_after_ecc"]
            /\ UNCHANGED chunk
    /\ exc' = [exc EXCEPT ![t] = NoExc]
    /\ rv' = [rv EXCEPT ![t] = <<"unset">>]
    /\ rcAttempt' = [rcAttempt EXCEPT ![t] = 0]
    /\ hist' = [hist EXCEPT ![t] = RcFramePopped(@)]
    /\ UNCHANGED <<device_params, driver, result, ret, step, inputVars,
                   sessVars, attempt, rcRet, hw, probe>>

\* result = execute_config_commands(chunk); results.append("--- CHUNK n ---" ...).
\* The callee has returned: its return value and loop counters are dropped.
ChunkAfterExecute(t) ==
    /\ pc[t] = "chunk_after_ecc"
    /\ IF exc[t] # NoExc
       THEN chunk_except(t)
       ELSE /\ chunk' = [chunk EXCEPT
                   !.results = Append(@, [num |-> chunk.chunk_num, failed |-> FALSE,
                                          text |-> rv[t]]),
                   !.chunk_success = TRUE]
            /\ pc' = [pc EXCEPT ![t] = "chunk_post"]
    /\ exc' = [exc EXCEPT ![t] = NoExc]
    /\ rv' = [rv EXCEPT ![t] = <<"unset">>]
    /\ attempt' = [attempt EXCEPT ![t] = 0]
    /\ rcAttempt' = [rcAttempt EXCEPT ![t] = 0]
    /\ hist' = [hist EXCEPT ![t].execs = 0]
    /\ UNCHANGED <<device_params, driver, result, ret, step, inputVars,
                   sessVars, eccRet, rcRet, hw, probe>>

\* after the attempts of a slice: failed_chunks += 1 and the recovery
\* _reconnect_if_needed for a slice that did not succeed
ChunkPost(t) ==
    /\ pc[t] = "chunk_post"
    /\ IF ~chunk.chunk_success
       THEN /\ chunk' = [chunk EXCEPT !.failed_chunks = @ + 1, !.after = "post"]
            /\ pc' = [pc EXCEPT ![t] = "rc"]
            /\ rcRet' = [rcRet EXCEPT ![t] = "chunk_recovered"]
       ELSE /\ pc' = [pc EXCEPT ![t] = "chunk_pause"]
            /\ UNCHANGED <<chunk, rcRet>>
    /\ UNCHANGED <<device_params, driver, exc, result, ret, rv, step, hist, inputVars,
                   sessVars, attempt, rcAttempt, eccRet, hw, probe>>

\* recovery calls without their except clauses: what _reconnect_if_needed
\* raised leaves the chunker
ChunkRecovered_raise(t) ==
    /\ pc[t] = "chunk_recovered"
    /\ IF exc[t] # NoExc
       THEN /\ pc' = [pc EXCEPT ![t] = "chunk_raised"]
            /\ UNCHANGED <<chunk, exc>>
       ELSE /\ exc' = [exc EXCEPT ![t] = NoExc]
            /\ IF chunk.after = "post"
               THEN /\ pc' = [pc EXCEPT ![t] = "chunk_pause"]
                    /\ UNCHANGED chunk
               ELSE /\ pc' = [pc EXCEPT ![t] = "chunk_loop"]
                    /\ chunk' = [chunk EXCEPT !.i = @ + chunk.chunk_size]
    /\ rv' = [rv EXCEPT ![t] = <<"unset">>]
    /\ rcAttempt' = [rcAttempt EXCEPT ![t] = 0]
    /\ hist' = [hist EXCEPT ![t] = RcFramePopped(@)]
    /\ UNCHANGED <<device_params, driver, result, ret, step, inputVars,
                   sessVars, attempt, eccRet, rcRet, hw, probe>>

\* the except clauses around the two recovery calls: what _reconnect_if_needed
\* raised is logged and dropped
ChunkRecovered(t) ==
    /\ pc[t] = "chunk_recovered"
    /\ exc' = [exc EXCEPT ![t] = NoExc]
    /\ IF chunk.after = "post"
       THEN /\ pc' = [pc EXCEPT ![t] = "chunk_pause"]
            /\ UNCHANGED chunk
       ELSE /\ pc' = [pc EXCEPT ![t] = "chunk_loop"]
            /\ chunk' = [chunk EXCEPT !.i = @ + chunk.chunk_size,
                                      !.periodicFailed = @ \/ exc[t] # NoExc]
    /\ rv' = [rv EXCEPT ![t] = <<"unset">>]
    /\ rcAttempt' = [rcAttempt EXCEPT ![t] = 0]
    /\ hist' = [hist EXCEPT ![t] = RcFramePopped(@)]
    /\ UNCHANGED <<device_params, driver, result, ret, step, inputVars,
                   sessVars, attempt, eccRet, rcRet, hw, probe>>

\* a pause whose periodic health check is made only after a slice has failed
ChunkPause_onfail(t) ==
    /\ pc[t] = "chunk_pause"
    /\ users' = Touch(t)
    /\ \E p \in RcProbes :
          LET periodic == /\ chunk.chunk_num < chunk.total_chunks
                          /\ chunk.chunk_num % 5 = 0
                          /\ chunk.failed_chunks > 0
          IN  /\ (connection[t] = 0 \/ ~periodic) => p = ProbeIdle
              /\ IF periodic /\ ~_check_connection_health(connection[t], p.remote_conn, p.prompt)
                 THEN /\ chunk' = [chunk EXCEPT !.after = "periodic",
                                                !.periodic = "unhealthy"]
                      /\ pc' = [pc EXCEPT ![t] = "rc"]
                      /\ rcRet' = [rcRet EXCEPT ![t] = "chunk_recovered"]
                 ELSE /\ chunk' = [chunk EXCEPT !.i = @ + chunk.chunk_size,
                                                !.periodic = IF periodic THEN "healthy"
                                                             ELSE "none"]
                      /\ pc' = [pc EXCEPT ![t] = "chunk_loop"]
                      /\ UNCHANGED rcRet
    /\ UNCHANGED <<device_params, driver, exc, result, ret, rv, step, hist, inputVars,
                   connection, dev, nextTr, openTr, attempt, rcAttempt, eccRet, hw, probe>>

\* the pause between slices and the health check after every 5th slice, then
\* the next value of range(0, len(commands), chunk_size)
ChunkPause(t) ==
    /\ pc[t] = "chunk_pause"
    /\ users' = Touch(t)
    /\ \E p \in RcProbes :
          LET periodic == chunk.chunk_num < chunk.total_chunks /\ chunk.chunk_num % 5 = 0
          IN  /\ (connection[t] = 0 \/ ~periodic) => p = ProbeIdle
              /\ IF periodic /\ ~_check_connection_health(connection[t], p.remote_conn, p.prompt)
                 THEN /\ chunk' = [chunk EXCEPT !.after = "periodic",
                                                !.periodic = "unhealthy"]
                      /\ pc' = [pc EXCEPT ![t] = "rc"]
                      /\ rcRet' = [rcRet EXCEPT ![t] = "chunk_recovered"]
                 ELSE /\ chunk' = [chunk EXCEPT !.i = @ + chunk.chunk_size,
                                                !.periodic = IF periodic THEN "healthy"
                                                             ELSE "none"]
                      /\ pc' = [pc EXCEPT ![t] = "chunk_loop"]
                      /\ UNCHANGED rcRet
    /\ UNCHANGED <<device_params, driver, exc, result, ret, rv, step, hist, inputVars,
                   connection, dev, nextTr, openTr, attempt, rcAttempt, eccRet, hw, probe>>

\* success_rate formatted with one decimal, in tenths of a percent
success_rate10(total, failed) == (2000 * (total - failed) + total) \div (2 * total)

\* a summary step that raises when any slice has failed
ChunkSummary_strict(t) ==
    /\ pc[t] = "chunk_summary"
    /\ IF chunk.total_chunks = 0 \/ chunk.failed_chunks > 0
       THEN /\ exc' = [exc EXCEPT ![t] = <<"chunks failed">>]
            /\ pc' = [pc EXCEPT ![t] = "chunk_raised"]
            /\ UNCHANGED chunk
       ELSE /\ chunk' = [chunk EXCEPT !.summary =
                   [total      |-> chunk.total_chunks,
                    successful |-> chunk.total_chunks,
                    failed     |-> 0,
                    rate10     |-> 1000]]
            /\ pc' = [pc EXCEPT ![t] = "chunk_done"]
            /\ UNCHANGED exc
    /\ UNCHANGED <<device_params, driver, result, ret, rv, step, hist, inputVars,
                   sessVars, loopVars, hw, probe>>

\* success_rate = ((total_chunks - failed_chunks) / total_chunks) * 100 and the
\* summary; the division raises ZeroDivisionError when total_chunks is 0
ChunkSummary(t) ==
    /\ pc[t] = "chunk_summary"
    /\ IF chunk.total_chunks = 0
       THEN /\ exc' = [exc EXCEPT ![t] = <<"division by zero">>]
            /\ pc' = [pc EXCEPT ![t] = "chunk_raised"]
            /\ UNCHANGED chunk
       ELSE /\ chunk' = [chunk EXCEPT !.summary =
                   [total      |-> chunk.total_chunks,
                    successful |-> chunk.total_chunks - chunk.failed_chunks,
                    failed     |-> chunk.failed_chunks,
                    rate10     |-> success_rate10(chunk.total_chunks, chunk.failed_chunks)]]
            /\ pc' = [pc EXCEPT ![t] = "chunk_done"]
            /\ UNCHANGED exc
    /\ UNCHANGED <<device_params, driver, result, ret, rv, step, hist, inputVars,
                   sessVars, loopVars, hw, probe>>

------------------------------------------------------------------------------
(* NetworkDeviceManager._execute_huawei_config, step by step *)

\* length of the command batch handed to _execute_huawei_config
MaxCommands == 2

\* what a call on the transport can raise while a batch runs
HwErrors == {"socket is closed", "read timed out", "broken pipe", "invalid input"}

\* a call on self.connection: on None it raises AttributeError
NoConnection == "'NoneType' object has no attribute"
TransportOutcomes(t) ==
    IF connection[t] = 0 THEN {NoConnection} ELSE {"ok"} \cup HwErrors

\* what the device prints in answer to a command or to a "Y"
Responses == {"ok", "overwrite? [y/n]", "Overwrite existing file?",
              "Please choose 'YES' or 'NO'"}

\* tok in text.lower(), for the texts of Responses
TextHas(text, tok) ==
    CASE text = "overwrite? [y/n]"            -> tok \in {"[y/n]", "y/n", "overwrite"}
      [] text = "Overwrite existing file?"    -> tok = "overwrite"
      [] text = "Please choose 'YES' or 'NO'" -> tok = "please choose 'yes' or 'no'"
      [] OTHER                                -> FALSE

\* confirmation_tokens of _send_huawei_interactive_commands
confirmation_tokens == {"[y/n]", " y/n ", "please choose 'yes' or 'no'",
                        "continue?", "are you sure", "confirm"}

\* any(tok in last_chunk.lower() for tok in confirmation_tokens)
IsConfirmation(text) == \E tok \in confirmation_tokens : TextHas(text, tok)

\* the loop condition without the loop_guard test
ConfirmLoopContinues_unguarded(last_chunk, loop_guard) ==
    last_chunk # "" /\ IsConfirmation(last_chunk)

\* while last_chunk and any(...) and loop_guard < 3
ConfirmLoopContinues(last_chunk, loop_guard) ==
    last_chunk # "" /\ IsConfirmation(last_chunk) /\ loop_guard < 3

\* no _execute_huawei_config call is running.  sends[i] counts how often
\* command i went to the device in the running call; marks holds what went
\* wrong while the batch ran; sentAfter holds the marks that were already
\* there when a command of the batch went to the device, resentAfter those
\* that were there when a command went to it once more.  out, loop_guard are
\* the locals of the loop body of _send_huawei_interactive_commands and ys
\* counts the "Y" sent for the command; lastIdx is the command that went last
\* to the transport lastOn, outOfOrder tells that an earlier command of the
\* batch went to that transport after a later one; mode is the last mode
\* step that was made (entry or exit), results the list of
\* _fast_huawei_commit_save
HwIdle == [commands |-> <<>>, idx |-> 0, phase |-> "none",
           enterRet |-> "none", enterExc |-> "none",
           sends |-> <<>>, fallback |-> FALSE,
           marks |-> {}, sentAfter |-> {}, resentAfter |-> {},
           out |-> <<>>, loop_guard |-> 0, ys |-> 0,
           lastIdx |-> 0, lastOn |-> 0, outOfOrder |-> FALSE,
           mode |-> "none", results |-> <<>>]

\* h outside the confirmation loop
NoLoop(h) == [h EXCEPT !.out = <<>>, !.loop_guard = 0, !.ys = 0]

\* the test of the except clause of _send_huawei_interactive_commands:
\* 'socket is closed' in str(e).lower() or 'timed out' in str(e).lower()
CmdIsTransient(msg) ==
    \/ Contains(msg, "socket is closed")
    \/ Contains(msg, "timed out")

\* the greatest element of a set of numbers, 0 for the empty set
Max(S) == IF S = {} THEN 0 ELSE CHOOSE x \in S : \A y \in S : y <= x

\* the commands with index in S went to the device on transport conn
HwSent(h, S, conn) ==
    [h EXCEPT !.sends = [i \in DOMAIN @ |-> IF i \in S THEN @[i] + 1 ELSE @[i]],
              !.sentAfter = IF S = {} THEN @ ELSE @ \cup h.marks,
              !.resentAfter = IF \E i \in S : h.sends[i] > 0
                              THEN @ \cup h.marks ELSE @,
              !.outOfOrder = @ \/ (h.lastOn = conn /\ \E i \in S : i < h.lastIdx),
              !.lastIdx = IF S = {} THEN @ ELSE Max(S),
              !.lastOn = IF S = {} THEN @ ELSE conn]

\* a call on the transport raised e while the batch ran
HwRaised(h, e, more) ==
    IF h.phase = "manual" THEN [h EXCEPT !.marks = @ \cup {e} \cup more] ELSE h

\* _execute_huawei_config, entry: a new run of the batch on self.connection
_execute_huawei_config(t) ==
    /\ pc[t] = "ecc_internal"
    /\ InType("huawei", device_type(t))
    /\ users' = Touch(t)
    /\ hw' = [HwIdle EXCEPT !.commands = hw.commands,
                            !.sends = [i \in 1..Len(hw.commands) |-> 0],
                            !.phase = "manual",
                            !.enterRet = "hw_send", !.enterExc = "hw_fallback"]
    /\ hist' = [hist EXCEPT ![t] = Executed(@)]
    /\ pc' = [pc EXCEPT ![t] = "hw_enter"]
    /\ UNCHANGED <<device_params, driver, exc, result, ret, rv, step, inputVars,
                   connection, dev, nextTr, openTr, loopVars, chunk, probe>>

\* what _fast_enter_huawei_config meets: the prompt already ends with ']';
\* system-view is sent and the prompt then ends with ']'; it is sent and the
\* prompt does not end with ']'; its output holds Error / Unrecognized /
\* Invalid; or a call on the transport raises
EnterOutcomes == {"already", "entered", "wrong_prompt", "error_output"} \cup HwErrors

\* _fast_enter_huawei_config: a prompt that does not end with ']' after
\* system-view is logged as a warning and the method returns; every exception
\* is wrapped as "Cannot enter Huawei config mode: ..."
_fast_enter_huawei_config(t) ==
    /\ pc[t] = "hw_enter"
    /\ users' = Touch(t)
    /\ \E o \in EnterOutcomes :
          IF o \in {"already", "entered", "wrong_prompt"}
          THEN /\ pc' = [pc EXCEPT ![t] = hw.enterRet]
               /\ hw' = [(IF o = "wrong_prompt"
                          THEN HwRaised(hw, "bad_prompt", {}) ELSE hw)
                            EXCEPT !.mode = "entry"]
               /\ UNCHANGED exc
          ELSE /\ pc' = [pc EXCEPT ![t] = hw.enterExc]
               /\ exc' = [exc EXCEPT ![t] =
                            <<"Cannot enter Huawei config mode:",
                              IF o = "error_output" THEN "System-view command failed"
                              ELSE o>>]
               /\ hw' = HwRaised(hw, "entry_failed", {})
    /\ UNCHANGED <<device_params, driver, result, ret, rv, step, hist, inputVars,
                   connection, dev, nextTr, openTr, loopVars, chunk, probe>>

\* one iteration of the loop of _send_huawei_interactive_commands, up to the
\* confirmation loop: send_command_timing(cmd) gives the output of the
\* command; an exception whose text holds 'socket is closed' or 'timed out'
\* goes to _reconnect_if_needed, any other is raised to
\* _execute_huawei_config.  After the last command the loop ends.
HwSend(t) ==
    /\ pc[t] = "hw_send"
    /\ users' = Touch(t)
    /\ IF hw.idx >= Len(hw.commands)
       THEN /\ pc' = [pc EXCEPT ![t] = "hw_exit"]
            /\ UNCHANGED <<exc, hw, rcRet>>
       ELSE \E o \in Responses \cup HwErrors :
               LET h1 == HwSent(hw, {hw.idx + 1}, connection[t])
               IN  IF o \in Responses
                   THEN /\ hw' = [h1 EXCEPT !.out = <<o>>, !.loop_guard = 0, !.ys = 0]
                        /\ pc' = [pc EXCEPT ![t] = "hw_confirm"]
                        /\ UNCHANGED <<exc, rcRet>>
                   ELSE IF CmdIsTransient(<<o>>)
                   THEN /\ hw' = HwRaised(h1, o, {})
                        /\ pc' = [pc EXCEPT ![t] = "rc"]
                        /\ rcRet' = [rcRet EXCEPT ![t] = "hw_cmd_rc"]
                        /\ UNCHANGED exc
                   ELSE /\ hw' = HwRaised(h1, o, {})
                        /\ exc' = [exc EXCEPT ![t] = <<o>>]
                        /\ pc' = [pc EXCEPT ![t] = "hw_fallback"]
                        /\ UNCHANGED rcRet
    /\ UNCHANGED <<device_params, driver, result, ret, rv, step, hist, inputVars,
                   connection, dev, nextTr, openTr, attempt, rcAttempt, eccRet, chunk, probe>>

\* the confirmation loop of _send_huawei_interactive_commands, one test of its
\* condition: "Y" is sent and the answer appended to out, or the loop ends.
\* What the send of "Y" raises is raised to _execute_huawei_config.
HwConfirm(t) ==
    /\ pc[t] = "hw_confirm"
    /\ users' = Touch(t)
    /\ IF ConfirmLoopContinues(hw.out[Len(hw.out)], hw.loop_guard)
       THEN \E o \in Responses \cup HwErrors :
               IF o \in Responses
               THEN /\ hw' = [hw EXCEPT !.out = Append(@, o),
                                        !.loop_guard = @ + 1, !.ys = @ + 1]
                    /\ UNCHANGED <<pc, exc>>
               ELSE /\ hw' = NoLoop(HwRaised(hw, o, {}))
                    /\ exc' = [exc EXCEPT ![t] = <<o>>]
                    /\ pc' = [pc EXCEPT ![t] = "hw_fallback"]
       ELSE /\ pc' = [pc EXCEPT ![t] = "hw_pace"]
            /\ UNCHANGED <<exc, hw>>
    /\ UNCHANGED <<device_params, driver, result, ret, rv, step, hist, inputVars,
                   connection, dev, nextTr, openTr, loopVars, chunk, probe>>

\* the end of the loop body of _send_huawei_interactive_commands: the pacing
\* sleep and outputs.append; the next command is taken
HwPace(t) ==
    /\ pc[t] = "hw_pace"
    /\ hw' = [NoLoop(hw) EXCEPT !.idx = @ + 1]
    /\ pc' = [pc EXCEPT ![t] = "hw_send"]
    /\ UNCHANGED <<device_params, driver, exc, result, ret, rv, step, hist, inputVars,
                   sessVars, loopVars, chunk, probe>>

\* the retry of _send_huawei_interactive_commands after _reconnect_if_needed
\* came back: what it raised is re-raised (raise e2), else config mode is
\* entered again
HwCmdAfterReconnect(t) ==
    /\ pc[t] = "hw_cmd_rc"
    /\ IF exc[t] # NoExc
       THEN /\ pc' = [pc EXCEPT ![t] = "hw_fallback"]
            /\ UNCHANGED hw
       ELSE /\ pc' = [pc EXCEPT ![t] = "hw_enter"]
            /\ hw' = [hw EXCEPT !.enterRet = "hw_resend", !.enterExc = "hw_fallback"]
    /\ rv' = [rv EXCEPT ![t] = <<"unset">>]
    /\ rcAttempt' = [rcAttempt EXCEPT ![t] = 0]
    /\ hist' = [hist EXCEPT ![t] = RcFramePopped(@)]
    /\ UNCHANGED <<device_params, driver, exc, result, ret, step, inputVars,
                   sessVars, attempt, eccRet, rcRet, chunk, probe>>

\* the retry of _send_huawei_interactive_commands: the command is sent once
\* more and its output goes to the confirmation loop; a failure is raised to
\* _execute_huawei_config (raise e2)
HwResend(t) ==
    /\ pc[t] = "hw_resend"
    /\ users' = Touch(t)
    /\ \E o \in Responses \cup HwErrors :
          LET h1 == HwSent(hw, {hw.idx + 1}, connection[t])
          IN  IF o \in Responses
              THEN /\ hw' = [h1 EXCEPT !.out = <<o>>, !.loop_guard = 0, !.ys = 0]
                   /\ pc' = [pc EXCEPT ![t] = "hw_confirm"]
                   /\ UNCHANGED exc
              ELSE /\ hw' = HwRaised(h1, o, {"retry_failed"})
                   /\ exc' = [exc EXCEPT ![t] = <<o>>]
                   /\ pc' = [pc EXCEPT ![t] = "hw_fallback"]
    /\ UNCHANGED <<device_params, driver, result, ret, rv, step, hist, inputVars,
                   connection, dev, nextTr, openTr, loopVars, chunk, probe>>

\* where _execute_huawei_config goes once the batch has run: to
\* _fast_huawei_commit_save when device_params.get('auto_commit', True)
HwAfterBatch(t) ==
    IF get(device_params[t], "auto_commit", "True") = "True" THEN "hw_commit"
    ELSE eccRet[t]

\* _fast_exit_huawei_config after the manual run of the batch: whatever the
\* quit sequence meets is swallowed
_fast_exit_huawei_config(t) ==
    /\ pc[t] = "hw_exit"
    /\ users' = Touch(t)
    /\ pc' = [pc EXCEPT ![t] = HwAfterBatch(t)]
    /\ hw' = [hw EXCEPT !.phase = "commit", !.mode = "exit"]
    /\ rv' = [rv EXCEPT ![t] = <<"config_output">>]
    /\ UNCHANGED <<device_params, driver, exc, result, ret, step, hist, inputVars,
                   connection, dev, nextTr, openTr, loopVars, chunk, probe>>

\* `except Exception as manual_error` of _execute_huawei_config: whatever the
\* manual run raised, the whole batch is handed to connection.send_config_set.
\* What that raises reaches the outer except clause, is wrapped as "Huawei
\* configuration failed: ..." and arrives in execute_config_commands.
HwFallback(t) ==
    /\ pc[t] = "hw_fallback"
    /\ users' = Touch(t)
    /\ \E o \in TransportOutcomes(t) :
          IF o = "ok"
          THEN /\ hw' = [HwSent(hw, DOMAIN hw.sends, connection[t])
                             EXCEPT !.fallback = TRUE, !.phase = "commit", !.mode = "exit"]
               /\ exc' = [exc EXCEPT ![t] = NoExc]
               /\ rv' = [rv EXCEPT ![t] = <<"config_output">>]
               /\ pc' = [pc EXCEPT ![t] = HwAfterBatch(t)]
               /\ UNCHANGED <<attempt, rcRet, hist>>
          ELSE /\ hw' = [HwRaised(hw, o, {}) EXCEPT !.fallback = TRUE]
               /\ ecc_except(t, DriverError(device_type(t), o),
                               [hist[t] EXCEPT !.driverFailed = TRUE,
                                               !.emergencyExit = emergency_exit(device_type(t))])
               /\ UNCHANGED rv
    /\ UNCHANGED <<device_params, driver, result, ret, step, inputVars,
                   connection, dev, nextTr, openTr, rcAttempt, eccRet, chunk, probe>>

\* the section _fast_huawei_commit_save appends to results for the commit or
\* the save: how is "first" (the first try went through), "retry" (the second
\* did) or "failed"
Section(phase, how) ==
    IF phase = "commit"
    THEN CASE how = "first" -> "--- FAST COMMIT ---"
           [] how = "retry" -> "--- FAST COMMIT (RETRY) ---"
           [] OTHER         -> "--- COMMIT FAILED ---"
    ELSE CASE how = "first" -> "--- FAST SAVE ---"
           [] how = "retry" -> "--- FAST SAVE (RETRY) ---"
           [] OTHER         -> "--- SAVE FAILED ---"

\* a failed commit appends nothing
HwPhaseEnded_silent(h, how) ==
    [h EXCEPT !.phase = IF @ = "commit" THEN "save" ELSE "done",
              !.results = IF how = "failed" /\ h.phase = "commit" THEN @
                          ELSE Append(@, Section(h.phase, how))]

\* h after the commit or the save of _fast_huawei_commit_save ended
HwPhaseEnded(h, how) ==
    [h EXCEPT !.phase = IF @ = "commit" THEN "save" ELSE "done",
              !.results = Append(@, Section(h.phase, how))]

\* the batch has run: the record of how it ran is dropped
HwBatchOver(h) ==
    [h EXCEPT !.idx = 0, !.sends = [i \in DOMAIN @ |-> 0], !.fallback = FALSE,
              !.marks = {}, !.sentAfter = {}, !.resentAfter = {},
              !.lastIdx = 0, !.lastOn = 0, !.outOfOrder = FALSE]

\* where control is after that: at the save, or back in execute_config_commands
HwPhasePc(t) == IF hw.phase = "commit" THEN "hw_commit" ELSE eccRet[t]

\* _fast_huawei_commit_save, the commit and then the save: any exception of the
\* first try goes to _reconnect_if_needed
_fast_huawei_commit_save(t) ==
    /\ pc[t] = "hw_commit"
    /\ users' = Touch(t)
    /\ \E o \in TransportOutcomes(t) :
          IF o = "ok"
          THEN /\ hw' = HwPhaseEnded(HwBatchOver(hw), "first")
               /\ pc' = [pc EXCEPT ![t] = HwPhasePc(t)]
               /\ UNCHANGED rcRet
          ELSE /\ hw' = HwBatchOver(hw)
               /\ pc' = [pc EXCEPT ![t] = "rc"]
               /\ rcRet' = [rcRet EXCEPT ![t] = "hw_cs_rc"]
    /\ UNCHANGED <<device_params, driver, exc, result, ret, rv, step, hist, inputVars,
                   connection, dev, nextTr, openTr, attempt, rcAttempt, eccRet, chunk, probe>>

\* the retry of the commit or the save after _reconnect_if_needed came back:
\* what it raised is caught and the failure marker appended, else config mode
\* is entered again
HwCommitAfterReconnect(t) ==
    /\ pc[t] = "hw_cs_rc"
    /\ IF exc[t] # NoExc
       THEN /\ hw' = HwPhaseEnded(hw, "failed")
            /\ pc' = [pc EXCEPT ![t] = HwPhasePc(t)]
       ELSE /\ hw' = [hw EXCEPT !.enterRet = "hw_cs_retry", !.enterExc = "hw_cs_retry"]
            /\ pc' = [pc EXCEPT ![t] = "hw_enter"]
    /\ exc' = [exc EXCEPT ![t] = NoExc]
    /\ rv' = [rv EXCEPT ![t] = <<"config_output">>]
    /\ rcAttempt' = [rcAttempt EXCEPT ![t] = 0]
    /\ hist' = [hist EXCEPT ![t] = RcFramePopped(@)]
    /\ UNCHANGED <<device_params, driver, result, ret, step, inputVars,
                   sessVars, attempt, eccRet, rcRet, chunk, probe>>

\* a second try without its except clause: what the mode entry or the command
\* raised leaves _fast_huawei_commit_save and _execute_huawei_config
HwCommitRetry_raise(t) ==
    /\ pc[t] = "hw_cs_retry"
    /\ users' = Touch(t)
    /\ \E o \in {"ok"} \cup HwErrors :
          LET e == IF exc[t] # NoExc THEN exc[t]
                   ELSE IF o = "ok" THEN NoExc ELSE <<o>>
          IN  /\ exc[t] # NoExc => o = "ok"
              /\ IF e = NoExc
                 THEN /\ hw' = HwPhaseEnded(hw, "retry")
                      /\ pc' = [pc EXCEPT ![t] = HwPhasePc(t)]
                      /\ exc' = [exc EXCEPT ![t] = NoExc]
                 ELSE /\ hw' = [hw EXCEPT !.phase = "done"]
                      /\ pc' = [pc EXCEPT ![t] = eccRet[t]]
                      /\ exc' = [exc EXCEPT ![t] = <<"Huawei configuration failed:">> \o e]
    /\ UNCHANGED <<device_params, driver, result, ret, rv, step, hist, inputVars,
                   connection, dev, nextTr, openTr, loopVars, chunk, probe>>

\* the second try of the commit or the save: a failure of the mode entry or
\* of the command is caught and the failure marker appended
HwCommitRetry(t) ==
    /\ pc[t] = "hw_cs_retry"
    /\ users' = Touch(t)
    /\ IF exc[t] # NoExc
       THEN hw' = HwPhaseEnded(hw, "failed")
       ELSE \E o \in {"ok"} \cup HwErrors :
               hw' = HwPhaseEnded(hw, IF o = "ok" THEN "retry" ELSE "failed")
    /\ exc' = [exc EXCEPT ![t] = NoExc]
    /\ pc' = [pc EXCEPT ![t] = HwPhasePc(t)]
    /\ UNCHANGED <<device_params, driver, result, ret, rv, step, hist, inputVars,
                   connection, dev, nextTr, openTr, loopVars, chunk, probe>>

------------------------------------------------------------------------------
(* Specifications *)

ChunkIdle == [pc |-> "idle"]

\* the state when the tasks in S have just been handed to execute_network_task
\* (views.execute_task_async: execute_network_task(task.device.get_connection_params(), ...))
InitTasks(S, dts, tts) ==
    /\ juniperMgr \in BOOLEAN
    /\ task_type \in [Tasks -> TaskTypes]
    /\ \A t \in S : task_type[t] \in tts
    /\ \A t \in Tasks \ S : task_type[t] = "bogus_task"
    /\ \E dt \in [Tasks -> DeviceTypes] :
          /\ \A t \in S : dt[t] \in dts
          /\ \A t \in Tasks \ S : dt[t] = "linux"
          /\ device_params = [t \in Tasks |-> get_connection_params(dt[t])]
    /\ callerParams = device_params
    /\ pc = [t \in Tasks |-> IF t \in S THEN "start" ELSE "idle"]
    /\ driver = [t \in Tasks |-> FALSE]
    /\ connection = [t \in Tasks |-> 0]
    /\ dev = [t \in Tasks |-> 0]
    /\ exc = [t \in Tasks |-> NoExc]
    /\ result = [t \in Tasks |-> <<"unset">>]
    /\ ret = [t \in Tasks |-> NoRet]
    /\ rv = [t \in Tasks |-> <<"unset">>]
    /\ step = [t \in Tasks |-> 0]
    /\ attempt = [t \in Tasks |-> 0]
    /\ rcAttempt = [t \in Tasks |-> 0]
    /\ eccRet = [t \in Tasks |-> "none"]
    /\ rcRet = [t \in Tasks |-> "none"]
    /\ hist = [t \in Tasks |-> NoHist]
    /\ nextTr = 1
    /\ openTr = {}
    /\ users = [i \in 1..(MaxTransports + 1) |-> {}]
    /\ chunk = ChunkIdle
    /\ hw = HwIdle
    /\ probe = ProbeIdle

TaskStep(t) ==
    \/ NetworkDeviceManager_init(t)
    \/ ManagerEnter(t)
    \/ Dispatch(t)
    \/ execute_config_commands(t)
    \/ _execute_config_commands_internal(t)
    \/ _reconnect_if_needed(t)
    \/ reconnect_attempt(t)
    \/ ecc_after_rc(t)
    \/ ShowCommand(t)
    \/ OverlayDone(t)
    \/ MultiTenantDone(t)
    \/ diagnose_device_connectivity(t)
    \/ AEEnter(t)
    \/ AEBody(t)
    \/ AEExit(t)
    \/ BodyResult(t)
    \/ ManagerExit(t)
    \/ TaskReturn(t)

\* one call of execute_network_task, every device type and task class
Init == InitTasks({"A"}, DeviceTypes, TaskTypes)
Next == \E t \in Tasks : TaskStep(t)
Spec == Init /\ [][Next]_vars

\* two calls of execute_network_task running in two threads against the same
\* device (views.py: one threading.Thread(target=execute_task_async) per task)
InitConc ==
    /\ InitTasks(Tasks, {"huawei", "juniper_junos"}, {"vlan_create", "evpn_instance"})
    /\ device_type("A") = device_type("B")
    /\ juniperMgr

ConcStep(t) ==
    \/ NetworkDeviceManager_init(t)
    \/ ManagerEnter(t)
    \/ Dispatch(t)
    \/ execute_config_commands(t)
    \/ _execute_config_commands_internal(t)
    \/ _reconnect_if_needed(t)
    \/ reconnect_attempt(t)
    \/ ecc_after_rc(t)
    \/ BodyResult(t)
    \/ ManagerExit(t)
    \/ TaskReturn(t)

NextConc == \E t \in Tasks : ConcStep(t)
SpecConc == InitConc /\ [][NextConc]_vars

\* sizes of the command batch and of a slice, and the number of slices of a call
MaxBatch == 5
MaxChunkSize == 2
MaxSlices == 3

NoSummary == [total |-> 0, successful |-> 0, failed |-> 0, rate10 |-> 0]

\* a call of _execute_commands_in_chunks(commands, chunk_size) by task "A" on a
\* Huawei manager that `with NetworkDeviceManager(...)` has connected
InitChunk ==
    /\ juniperMgr = TRUE
    /\ task_type = [t \in Tasks |-> "bogus_task"]
    /\ callerParams = [t \in Tasks |->
                          get_connection_params(IF t = "A" THEN "huawei" ELSE "linux")]
    /\ device_params = [t \in Tasks |->
                          IF t = "A" THEN _enhance_connection_params(callerParams[t])
                          ELSE callerParams[t]]
    /\ pc = [t \in Tasks |-> IF t = "A" THEN "chunk_start" ELSE "idle"]
    /\ driver = [t \in Tasks |-> FALSE]
    /\ connection = [t \in Tasks |-> IF t = "A" THEN 1 ELSE 0]
    /\ dev = [t \in Tasks |-> 0]
    /\ exc = [t \in Tasks |-> NoExc]
    /\ result = [t \in Tasks |-> <<"unset">>]
    /\ ret = [t \in Tasks |-> NoRet]
    /\ rv = [t \in Tasks |-> <<"unset">>]
    /\ step = [t \in Tasks |-> 0]
    /\ attempt = [t \in Tasks |-> 0]
    /\ rcAttempt = [t \in Tasks |-> 0]
    /\ eccRet = [t \in Tasks |-> "none"]
    /\ rcRet = [t \in Tasks |-> "none"]
    /\ hist = [t \in Tasks |-> IF t = "A" THEN [NoHist EXCEPT !.opens = 1, !.enters = 1, !.opened = {1}, !.primed = TRUE] ELSE NoHist]
    /\ nextTr = 2
    /\ openTr = {1}
    /\ users = [i \in 1..(MaxTransports + 1) |-> IF i = 1 THEN {"A"} ELSE {}]
    /\ hw = HwIdle
    /\ probe = ProbeIdle
    /\ \E k \in 0..MaxBatch, c \in 1..MaxChunkSize :
          /\ total_chunks([j \in 1..k |-> j], c) <= MaxSlices
          /\ chunk = [pc |-> "chunk", commands |-> [j \in 1..k |-> j], chunk_size |-> c,
                      i |-> 0, attempt |-> 0, failed_chunks |-> 0, total_chunks |-> 0,
                      chunk_success |-> FALSE, chunk |-> <<>>, chunk_num |-> 0,
                      results |-> <<>>, slices |-> <<>>, after |-> "post",
                      checked |-> FALSE, periodic |-> "none", periodicFailed |-> FALSE,
                      summary |-> NoSummary]

ChunkStep(t) ==
    \/ ChunkStart(t)
    \/ ChunkLoop(t)
    \/ ChunkTry(t)
    \/ ChunkAfterReconnect(t)
    \/ ChunkAfterExecute(t)
    \/ ChunkPost(t)
    \/ ChunkRecovered(t)
    \/ ChunkPause(t)
    \/ ChunkSummary(t)
    \/ execute_config_commands(t)
    \/ _execute_config_commands_internal(t)
    \/ _reconnect_if_needed(t)
    \/ reconnect_attempt(t)
    \/ ecc_after_rc(t)

NextChunk == \E t \in Tasks : ChunkStep(t)
SpecChunk == InitChunk /\ [][NextChunk]_vars

\* the slices a long batch has behind it when the periodic check comes up, and
\* the lengths of the batch
PeriodicFrom == 4
PeriodicBatches == {5, 6}

\* a call of _execute_commands_in_chunks(commands, 1) with 5 or 6 commands, at
\* the pause after its fourth slice: the four slices went through on their
\* first attempt on the session the manager was connected with
InitPeriodic ==
    /\ juniperMgr = TRUE
    /\ task_type = [t \in Tasks |-> "bogus_task"]
    /\ callerParams = [t \in Tasks |->
                          get_connection_params(IF t = "A" THEN "huawei" ELSE "linux")]
    /\ device_params = [t \in Tasks |->
                          IF t = "A" THEN _enhance_connection_params(callerParams[t])
                          ELSE callerParams[t]]
    /\ pc = [t \in Tasks |-> IF t = "A" THEN "chunk_pause" ELSE "idle"]
    /\ driver = [t \in Tasks |-> FALSE]
    /\ connection = [t \in Tasks |-> IF t = "A" THEN 1 ELSE 0]
    /\ dev = [t \in Tasks |-> 0]
    /\ exc = [t \in Tasks |-> NoExc]
    /\ result = [t \in Tasks |-> <<"unset">>]
    /\ ret = [t \in Tasks |-> NoRet]
    /\ rv = [t \in Tasks |-> <<"unset">>]
    /\ step = [t \in Tasks |-> 0]
    /\ attempt = [t \in Tasks |-> 0]
    /\ rcAttempt = [t \in Tasks |-> 0]
    /\ eccRet = [t \in Tasks |-> IF t = "A" THEN "chunk_after_ecc" ELSE "none"]
    /\ rcRet = [t \in Tasks |-> "none"]
    /\ hist = [t \in Tasks |-> IF t = "A"
                                THEN [NoHist EXCEPT !.opens = 1, !.enters = 1, !.opened = {1},
                                                    !.primed = TRUE, !.issued = TRUE,
                                                    !.interactive = TRUE]
                                ELSE NoHist]
    /\ nextTr = 2
    /\ openTr = {1}
    /\ users = [i \in 1..(MaxTransports + 1) |-> IF i = 1 THEN {"A"} ELSE {}]
    /\ hw = HwIdle
    /\ probe = ProbeIdle
    /\ \E k \in PeriodicBatches :
          LET commands == [j \in 1..k |-> j]
          IN  chunk = [pc |-> "chunk", commands |-> commands, chunk_size |-> 1,
                       i |-> PeriodicFrom - 1, attempt |-> 0, failed_chunks |-> 0,
                       total_chunks |-> total_chunks(commands, 1),
                       chunk_success |-> TRUE,
                       chunk |-> Slice(commands, PeriodicFrom - 1, 1),
                       chunk_num |-> PeriodicFrom,
                       results |-> [n \in 1..PeriodicFrom |->
                                       [num |-> n, failed |-> FALSE,
                                        text |-> <<"config_output">>]],
                       slices |-> [n \in 1..PeriodicFrom |-> Slice(commands, n - 1, 1)],
                       after |-> "post", checked |-> FALSE, periodic |-> "none",
                       periodicFailed |-> FALSE, summary |-> NoSummary]

PeriodicStep(t) ==
    \/ ChunkLoop(t)
    \/ ChunkTry(t)
    \/ ChunkAfterReconnect(t)
    \/ ChunkAfterExecute(t)
    \/ ChunkPost(t)
    \/ ChunkRecovered(t)
    \/ ChunkPause(t)
    \/ ChunkSummary(t)
    \/ execute_config_commands(t)
    \/ _execute_config_commands_internal(t)
    \/ _reconnect_if_needed(t)
    \/ reconnect_attempt(t)
    \/ ecc_after_rc(t)

NextPeriodic == \E t \in Tasks : PeriodicStep(t)
SpecPeriodic == InitPeriodic /\ [][NextPeriodic]_vars

\* the longest batch of the runs that are followed to their end
TermBatch == 2

\* a call of _execute_commands_in_chunks with a batch of at most TermBatch
\* commands.  The calling thread keeps running and every call into the
\* transport library returns or raises (timeout, conn_timeout), so a step that
\* can be taken is taken.
InitTerm == InitChunk /\ Len(chunk.commands) <= TermBatch
NextTerm == \E t \in Tasks : ChunkStep(t)
SpecTerm == InitTerm /\ [][NextTerm]_vars /\ WF_vars(NextTerm)

\* the manager returns to its caller
HwDone == "hw_done"

\* a call of execute_config_commands(commands) by task "A" on a Huawei manager
\* that `with NetworkDeviceManager(...)` has connected
InitHuawei ==
    /\ juniperMgr = TRUE
    /\ task_type = [t \in Tasks |-> "bogus_task"]
    /\ callerParams = [t \in Tasks |->
                          get_connection_params(IF t = "A" THEN "huawei" ELSE "linux")]
    /\ device_params = [t \in Tasks |->
                          IF t = "A" THEN _enhance_connection_params(callerParams[t])
                          ELSE callerParams[t]]
    /\ pc = [t \in Tasks |-> IF t = "A" THEN "ecc" ELSE "idle"]
    /\ driver = [t \in Tasks |-> FALSE]
    /\ connection = [t \in Tasks |-> IF t = "A" THEN 1 ELSE 0]
    /\ dev = [t \in Tasks |-> 0]
    /\ exc = [t \in Tasks |-> NoExc]
    /\ result = [t \in Tasks |-> <<"unset">>]
    /\ ret = [t \in Tasks |-> NoRet]
    /\ rv = [t \in Tasks |-> <<"unset">>]
    /\ step = [t \in Tasks |-> 0]
    /\ attempt = [t \in Tasks |-> 0]
    /\ rcAttempt = [t \in Tasks |-> 0]
    /\ eccRet = [t \in Tasks |-> IF t = "A" THEN HwDone ELSE "none"]
    /\ rcRet = [t \in Tasks |-> "none"]
    /\ hist = [t \in Tasks |-> IF t = "A" THEN [NoHist EXCEPT !.opens = 1, !.enters = 1, !.opened = {1}, !.primed = TRUE] ELSE NoHist]
    /\ nextTr = 2
    /\ openTr = {1}
    /\ users = [i \in 1..(MaxTransports + 1) |-> IF i = 1 THEN {"A"} ELSE {}]
    /\ chunk = ChunkIdle
    /\ \E k \in 0..MaxCommands : hw = [HwIdle EXCEPT !.commands = [j \in 1..k |-> j]]
    /\ probe = ProbeIdle

HuaweiStep(t) ==
    \/ execute_config_commands(t)
    \/ _execute_huawei_config(t)
    \/ _fast_enter_huawei_config(t)
    \/ HwSend(t)
    \/ HwConfirm(t)
    \/ HwPace(t)
    \/ HwCmdAfterReconnect(t)
    \/ HwResend(t)
    \/ _fast_exit_huawei_config(t)
    \/ HwFallback(t)
    \/ _fast_huawei_commit_save(t)
    \/ HwCommitAfterReconnect(t)
    \/ HwCommitRetry(t)
    \/ _reconnect_if_needed(t)
    \/ reconnect_attempt(t)
    \/ ecc_after_rc(t)

NextHuawei == \E t \in Tasks : HuaweiStep(t)
SpecHuawei == InitHuawei /\ [][NextHuawei]_vars

\* a call of _check_connection_health by task "A": the manager has a
\* connection or none, and the transport is in any condition
InitHealth ==
    /\ juniperMgr = TRUE
    /\ task_type = [t \in Tasks |-> "bogus_task"]
    /\ callerParams = [t \in Tasks |->
                          get_connection_params(IF t = "A" THEN "huawei" ELSE "linux")]
    /\ device_params = [t \in Tasks |->
                          IF t = "A" THEN _enhance_connection_params(callerParams[t])
                          ELSE callerParams[t]]
    /\ pc = [t \in Tasks |-> IF t = "A" THEN "health" ELSE "idle"]
    /\ driver = [t \in Tasks |-> FALSE]
    /\ \E c \in {0, 1} :
          /\ connection = [t \in Tasks |-> IF t = "A" THEN c ELSE 0]
          /\ hist = [t \in Tasks |-> IF t = "A" /\ c = 1
                                     THEN [NoHist EXCEPT !.opens = 1, !.enters = 1,
                                                         !.opened = {1}, !.primed = TRUE]
                                     ELSE IF t = "A"
                                     THEN [NoHist EXCEPT !.opens = 1, !.enters = 1,
                                                         !.openFailed = TRUE]
                                     ELSE NoHist]
          /\ nextTr = 1 + c
          /\ openTr = IF c = 1 THEN {1} ELSE {}
          /\ users = [i \in 1..(MaxTransports + 1) |->
                         IF i = 1 /\ c = 1 THEN {"A"} ELSE {}]
    /\ dev = [t \in Tasks |-> 0]
    /\ exc = [t \in Tasks |-> NoExc]
    /\ result = [t \in Tasks |-> <<"unset">>]
    /\ ret = [t \in Tasks |-> NoRet]
    /\ rv = [t \in Tasks |-> <<"unset">>]
    /\ step = [t \in Tasks |-> 0]
    /\ attempt = [t \in Tasks |-> 0]
    /\ rcAttempt = [t \in Tasks |-> 0]
    /\ eccRet = [t \in Tasks |-> "none"]
    /\ rcRet = [t \in Tasks |-> "none"]
    /\ chunk = ChunkIdle
    /\ hw = HwIdle
    /\ probe \in [remote_conn : RemoteConns, prompt : PromptReads]

NextHealth == \E t \in Tasks : HealthCheck(t)
SpecHealth == InitHealth /\ [][NextHealth]_vars

------------------------------------------------------------------------------
(* Properties of execute_network_task *)

\* the positions of a call of execute_network_task; none of them is outside
\* the try statement, "done" is the return
TaskPcs == {"idle", "start", "enter", "body", "ecc", "ecc_internal", "rc", "rc_attempt",
            "ecc_after_rc", "show", "overlay_done", "mt_done", "diag", "ae_enter",
            "ae_body", "ae_exit", "body_result", "exit", "return", "done"}

\* C1: execute_network_task never raises: every call ends in its return, and
\* what it returns is (true, output, "") or (false, "", message): success
\* implies an empty error, failure implies an empty output.
C1_ReturnContract ==
    \A t \in Tasks :
        /\ pc[t] \in TaskPcs
        /\ (ret[t] # NoRet) <=> (pc[t] = "done")
        /\ pc[t] = "done" =>
              /\ ret[t].success => (ret[t].error = <<>> /\ ret[t].output = result[t])
              /\ ~ret[t].success => (ret[t].output = <<>> /\ ret[t].error = exc[t])

\* a call that failed after its batch reached the device, and has returned
C1_Witness ==
    /\ pc["A"] = "done"
    /\ ~ret["A"].success
    /\ hist["A"].issued
    /\ result["A"] # <<>>

\* C2: closing the session never raises and never changes the result: a body
\* that completed is returned as (true, output, "") whatever the close does,
\* and a body that failed is returned with the body's error, not the close's.
C2_CloseKeepsResult ==
    \A t \in Tasks :
        (pc[t] = "done" /\ hist[t].bodyDone) =>
            IF hist[t].bodyExc = NoExc
            THEN ret[t] = [success |-> TRUE, output |-> hist[t].bodyResult, error |-> <<>>]
            ELSE ret[t] = [success |-> FALSE, output |-> <<>>, error |-> hist[t].bodyExc]

\* C3: every session a call of execute_network_task has opened has had its
\* disconnect invoked by the time the call returns.
C3_OpenedSessionsClosed ==
    \A t \in Tasks : pc[t] = "done" => hist[t].opened \subseteq hist[t].closeCalls

\* C4: when the opening of the session at the start of the call fails, the
\* call returns (false, "", message) and nothing is sent to the device.
C4_OpenFailureStops ==
    \A t \in Tasks :
        (pc[t] = "done" /\ hist[t].openFailed) =>
            /\ ~ret[t].success
            /\ ret[t].output = <<>>
            /\ ~hist[t].issued

\* C5: a call during which execute_config_commands raised returns
\* success = false with the error message.
C5_DriverFailureReported ==
    \A t \in Tasks :
        (pc[t] = "done" /\ hist[t].eccRaised) => (~ret[t].success /\ ret[t].error # <<>>)

\* C6: one call owns one session: the manager is entered once, and the session
\* is not closed while the body of the task is still running.
C6_OneSessionPerCall ==
    \A t \in Tasks : hist[t].enters <= 1 /\ ~hist[t].closedInBody

\* C8: the device_params map the caller passed holds, at every moment of the
\* call, the keys and values it held when it was passed.  (The manager keeps a
\* reference to the caller's map: device_params[t] is that one object.)
C8_CallerParamsUnchanged ==
    \A t \in Tasks : device_params[t] = callerParams[t]

------------------------------------------------------------------------------
(* Properties of two concurrent calls *)

\* C7: two calls running concurrently against the same device never use the
\* same session: no transport object is touched (created, used, reconnected
\* or closed) by more than one call, and the two managers never hold the same
\* transport.
C7_SessionsNotShared ==
    /\ \A i \in DOMAIN users : Cardinality(users[i]) <= 1
    /\ \A t, u \in Tasks :
          t # u => /\ (connection[t] # 0 => connection[t] # connection[u])
                   /\ (dev[t] # 0 => dev[t] # dev[u])
                   /\ hist[t].opened \cap hist[u].opened = {}
                   /\ hist[t].closeCalls \cap hist[u].opened = {}

\* both calls hold an open session at once, both have sent their commands,
\* and one of them has replaced its transport by reconnecting
C7_Witness ==
    /\ connection["A"] \in openTr
    /\ connection["B"] \in openTr
    /\ hist["A"].issued /\ hist["B"].issued
    /\ Cardinality(hist["A"].opened) = 2

------------------------------------------------------------------------------
(* Properties of _execute_commands_in_chunks *)

RECURSIVE Flatten(_)
Flatten(ss) == IF ss = <<>> THEN <<>> ELSE Head(ss) \o Flatten(Tail(ss))

CeilDiv(k, c) == (k + c - 1) \div c

ChunkLoopEnded == pc["A"] \in {"chunk_summary", "chunk_done", "chunk_raised"}

\* C9: for a batch of k commands and a chunk size c >= 1 the chunker takes
\* exactly ceil(k / c) slices; the slices taken so far are always a gap-free,
\* non-overlapping prefix of the batch in order, each of c commands except
\* possibly the last; when the loop has ended they make up the whole batch.
\* 20 commands with c = 8 give slices of 8, 8 and 4 (computed when the chunker
\* is called).
C9_SlicesPartition ==
    LET k  == Len(chunk.commands)
        c  == chunk.chunk_size
        ss == chunk.slices
        ex == Slices([j \in 1..20 |-> j], 0, 8)
    IN  /\ Flatten(ss) = SubSeq(chunk.commands, 1, Len(Flatten(ss)))
        /\ \A n \in 1..Len(ss) :
              /\ Len(ss[n]) >= 1 /\ Len(ss[n]) <= c
              /\ Len(ss[n]) < c => n = CeilDiv(k, c)
        /\ Len(ss) <= CeilDiv(k, c)
        /\ ChunkLoopEnded => (Len(ss) = CeilDiv(k, c) /\ Flatten(ss) = chunk.commands)
        /\ pc["A"] = "chunk_start" =>
              /\ [n \in 1..Len(ex) |-> Len(ex[n])] = <<8, 8, 4>>
              /\ Flatten(ex) = [j \in 1..20 |-> j]

\* a batch of 5 commands with c = 2 has been run to the end: slices of 2, 2, 1
C9_Witness ==
    /\ pc["A"] = "chunk_done"
    /\ Len(chunk.commands) = 5 /\ chunk.chunk_size = 2
    /\ Len(chunk.slices) = 3
    /\ Len(chunk.slices[3]) = 1

FailedEntries(results) == {n \in 1..Len(results) : results[n].failed}

\* C10: the chunker attempts every slice in order whatever happened to the
\* earlier ones and records exactly one entry per slice, labelled with the
\* slice number: its output, or a FAILED entry with the error.  A failed slice
\* never makes the chunker raise.  In the summary total is the number of
\* slices, successful + failed = total, and failed is the number of FAILED
\* entries.
C10_OneEntryPerSlice ==
    LET rs == chunk.results
        ss == chunk.slices
    IN  /\ \A n \in 1..Len(rs) : rs[n].num = n
        /\ Len(rs) <= Len(ss) /\ Len(ss) <= Len(rs) + 1
        /\ pc["A"] \in {"chunk_post", "chunk_recovered", "chunk_pause", "chunk_loop"}
              => Len(rs) = Len(ss)
        /\ pc["A"] \in {"chunk_pause", "chunk_loop"}
              => chunk.failed_chunks = Cardinality(FailedEntries(rs))
        /\ pc["A"] = "chunk_raised" => Len(chunk.commands) = 0
        /\ ChunkLoopEnded =>
              /\ Len(rs) = Len(ss)
              /\ Len(ss) = CeilDiv(Len(chunk.commands), chunk.chunk_size)
              /\ chunk.failed_chunks = Cardinality(FailedEntries(rs))
        /\ pc["A"] = "chunk_done" =>
              /\ chunk.summary.total = Len(ss)
              /\ chunk.summary.successful + chunk.summary.failed = chunk.summary.total
              /\ chunk.summary.failed = Cardinality(FailedEntries(rs))
              /\ chunk.summary.successful = Len(rs) - Cardinality(FailedEntries(rs))

\* slice 2 of 3 failed with a connection error on each of its three attempts:
\* entries 1 and 3 hold output, entry 2 is FAILED, 2 successful, 1 failed, 66.7%
C10_Witness ==
    /\ pc["A"] = "chunk_done"
    /\ Len(chunk.results) = 3
    /\ FailedEntries(chunk.results) = {2}
    /\ ChunkIsConnectionError(chunk.results[2].text)
    /\ chunk.results[1].text = <<"config_output">>
    /\ chunk.results[3].text = <<"config_output">>
    /\ chunk.summary = [total |-> 3, successful |-> 2, failed |-> 1, rate10 |-> 667]

\* C11: a chunked batch in which at least one slice succeeded is never turned
\* into a failure: the chunker does not raise, it returns the aggregate with at
\* least one successful slice counted, and the entry of every slice says
\* whether that slice failed (entry n is FAILED exactly when slice n failed).
C11_PartialSuccessReported ==
    LET rs == chunk.results
        someOk == \E n \in 1..Len(rs) : ~rs[n].failed
    IN  /\ someOk => pc["A"] # "chunk_raised"
        /\ pc["A"] = "chunk_post" =>
              /\ rs[Len(rs)].num = chunk.chunk_num
              /\ rs[Len(rs)].failed = ~chunk.chunk_success
        /\ (pc["A"] = "chunk_done" /\ someOk) =>
              /\ exc["A"] = NoExc
              /\ chunk.summary.successful >= 1
              /\ chunk.summary.failed = Cardinality(FailedEntries(rs))

\* a batch of two slices has been run to the end: the first succeeded, the
\* second failed with an error that is not retried
C11_Witness ==
    /\ pc["A"] = "chunk_done"
    /\ Len(chunk.results) = 2
    /\ ~chunk.results[1].failed
    /\ chunk.results[2].failed
    /\ ~ChunkIsConnectionError(chunk.results[2].text)
    /\ chunk.summary.failed = 1

------------------------------------------------------------------------------
(* Properties of _reconnect_if_needed *)

\* the waits of the specification before attempts 0, 1, 2
BackoffSchedule == <<0, 2, 4>>

RECURSIVE SumSeq(_)
SumSeq(q) == IF q = <<>> THEN 0 ELSE Head(q) + SumSeq(Tail(q))

C13_ExhaustionRaises ==
    \A t \in Tasks :
        LET os == hist[t].rcOutcomes
        IN  (pc[t] = rcRet[t] /\ os # <<>> /\ os[Len(os)] # "healthy") =>
                /\ exc[t] # NoExc
                /\ exc[t][1] = "Connection lost and reconnection failed after 3 attempts:"

------------------------------------------------------------------------------
(* Properties of the dispatch and of the drivers *)

\* C16: a call with a task type that has no branch, once its manager has been
\* entered, returns (false, "", message naming the type), has sent nothing to
\* the device, and has invoked disconnect on every session it opened.
C16_UnknownTaskType ==
    \A t \in Tasks :
        (pc[t] = "done" /\ task_type[t] = "bogus_task" /\ hist[t].bodyDone) =>
            /\ ret[t] = [success |-> FALSE, output |-> <<>>,
                         error |-> <<"Unknown task type:", task_type[t]>>]
            /\ ~hist[t].issued
            /\ hist[t].opened \subseteq hist[t].closeCalls

C19_ExhaustionIsTerminal ==
    \A t \in Tasks :
        hist[t].rcExhausted => pc[t] \notin {"rc", "rc_attempt", "ecc_internal"}

\* C14: a terminal error ("invalid input") raised while the batch runs is
\* surfaced at once: after it no command of the batch goes to the device
\* once more.
C14_TerminalSurfacesAtOnce == "invalid input" \notin hw.resentAfter

\* C17: when the prompt does not end with ']' after the mode-entry token, the
\* driver sends none of the commands of the batch, by the manual path or by
\* the library fallback.
C17_BadPromptSendsNothing == "bad_prompt" \notin hw.sentAfter

\* C18: when the re-send of command i has failed too, the batch is given up:
\* no command of the batch goes to the device again within that driver
\* invocation, and no command is sent more than twice.
C18_FailedRetryGivesUp ==
    /\ "retry_failed" \notin hw.resentAfter
    /\ \A i \in DOMAIN hw.sends : hw.sends[i] <= 2

\* C20: an error raised while a batch runs is classified the same way at the
\* three retry decision points: per command in the Huawei driver, per batch in
\* execute_config_commands, per slice in _execute_commands_in_chunks.
C20_OneClassification ==
    \A e \in hw.marks \cap HwErrors :
        LET atCmd   == CmdIsTransient(<<e>>)
            atBatch == IsConnectionError(DriverError("huawei", e))
            atSlice == ChunkIsConnectionError(<<"Configuration failed:">>
                                              \o DriverError("huawei", e))
        IN  atCmd = atBatch /\ atBatch = atSlice

\* the segments of a message
Segs(msg) == {msg[i] : i \in 1..Len(msg)}

\* C26: whenever a dialect driver (Cisco, Huawei, generic) fails the batch,
\* it has sent the mode-exit token before the error reaches the caller.
C26_EmergencyExitSent ==
    \A t \in Tasks : hist[t].driverFailed => hist[t].emergencyExit

\* C27: a batch is only sent on a transport on which _fast_session_setup has
\* run: when execute_config_commands hands the batch to the dialect driver,
\* the session priming has been sent on self.connection.
C27_ReopenedTransportPrimed ==
    \A t \in Tasks :
        (pc[t] = "ecc_internal" /\ connection[t] # 0) => hist[t].primed

\* C29: the error of a failed commit of the Transactional driver holds the
\* diff of the changeset next to the commit error.
C29_CommitErrorCarriesDiff ==
    \A t \in Tasks :
        "CommitError" \in Segs(exc[t]) => "Diff" \in Segs(exc[t])

\* C30: when the commit of the Transactional driver has failed, the loaded
\* statements are no longer in the candidate configuration once the error is
\* with the caller.
C30_FailedBatchDiscarded ==
    \A t \in Tasks : ~hist[t].candidate

\* C28: _check_connection_health returns true iff the transport object exists
\* and the prompt just read is non-empty after trimming; without a connection,
\* without a channel or when the prompt read fails it returns false and does
\* not raise.
C28_HealthIffPrompt ==
    \A t \in Tasks :
        pc[t] = "health_done" =>
            /\ rv[t] \in {<<"True">>, <<"False">>}
            /\ exc[t] = NoExc
            /\ rv[t] = <<"True">> <=>
                   /\ connection[t] # 0
                   /\ probe.remote_conn = "channel"
                   /\ probe.prompt \notin {"raise", "", " ", "\n", " \t\n"}

\* the check of a session that answers with a prompt padded by blanks, and of
\* a blank prompt, has been made
C28_Witness ==
    /\ pc["A"] = "health_done"
    /\ connection["A"] # 0
    /\ probe.remote_conn = "channel"
    /\ \/ probe.prompt = " <HUAWEI>\n" /\ rv["A"] = <<"True">>
       \/ probe.prompt = " \t\n" /\ rv["A"] = <<"False">>

\* the device answers in which a marker of the confirmation loop occurs
PromptTexts == {"overwrite? [y/n]", "Please choose 'YES' or 'NO'"}

\* the number of texts at the head of out that are all prompts
LeadingPrompts(out) ==
    Cardinality({k \in 1..Len(out) : \A j \in 1..k : out[j] \in PromptTexts})

\* C21: for each command the driver sends as many "Y" as there are
\* consecutive device answers holding a confirmation marker (the output of the
\* command, then the output of each "Y"), at most 3, and every answer to a
\* "Y" is appended to the output of the command.
C21_OneYPerPrompt ==
    /\ hw.ys <= 3
    /\ hw.out # <<>> => Len(hw.out) = hw.ys + 1
    /\ \A t \in Tasks :
          pc[t] = "hw_pace" =>
              hw.ys = IF LeadingPrompts(hw.out) < 3 THEN LeadingPrompts(hw.out) ELSE 3

\* a chain of four prompts has been answered with three "Y", and then the
\* loop has ended
C21_Witness ==
    /\ pc["A"] = "hw_pace"
    /\ LeadingPrompts(hw.out) = 4
    /\ hw.ys = 3

\* the token set of the specification
SpecTokens == {"[y/n]", "y/n", "confirm", "are you sure", "continue?", "overwrite"}
HoldsSpecToken(text) == \E tok \in SpecTokens : TextHas(text, tok)

\* C22: in the per-command loop a "Y" is sent in answer to an output iff the
\* output holds one of the tokens [y/n], y/n, confirm, are you sure,
\* continue?, overwrite (the answers before the last one of out got a "Y"; the
\* last one got none when the loop ended before its third round).
C22_FixedTokenSet ==
    /\ \A k \in 1..(Len(hw.out) - 1) : HoldsSpecToken(hw.out[k])
    /\ \A t \in Tasks :
          (pc[t] = "hw_pace" /\ hw.loop_guard < 3)
              => ~HoldsSpecToken(hw.out[Len(hw.out)])

\* C23: on one transport the commands of a batch go to the device in batch
\* order: no command is sent after a later command of the batch was sent.
C23_BatchOrder == ~hw.outOfOrder

\* C24: when the commit or the save is about to be sent, the last mode step
\* the driver made is the mode exit, on the first try and on the retry.
C24_CommitAfterExit ==
    \A t \in Tasks :
        (pc[t] = "hw_commit" \/ (pc[t] = "hw_cs_retry" /\ exc[t] = NoExc))
            => hw.mode = "exit"

CommitSections ==
    {"--- FAST COMMIT ---", "--- FAST COMMIT (RETRY) ---", "--- COMMIT FAILED ---"}
SaveSections ==
    {"--- FAST SAVE ---", "--- FAST SAVE (RETRY) ---", "--- SAVE FAILED ---"}

\* C25: the save is attempted whatever the commit did, and the output of the
\* commit phase is one commit section followed by one save section.
C25_BothOutcomesReported ==
    /\ hw.phase \in {"none", "manual", "commit"} => hw.results = <<>>
    /\ hw.phase = "save" => Len(hw.results) = 1 /\ hw.results[1] \in CommitSections
    /\ hw.phase = "done" =>
          /\ Len(hw.results) = 2
          /\ hw.results[1] \in CommitSections
          /\ hw.results[2] \in SaveSections

\* the commit has failed, the save was attempted and has failed too, and both
\* are in the output
C25_Witness ==
    /\ pc["A"] = HwDone
    /\ hw.results = <<"--- COMMIT FAILED ---", "--- SAVE FAILED ---">>

------------------------------------------------------------------------------
(* Properties of the chunker's outcome *)

\* C37: _execute_commands_in_chunks called with an empty batch returns an
\* aggregate result that reports zero slices; it does not raise.
C37_EmptyBatchReturns ==
    Len(chunk.commands) = 0 =>
        /\ pc["A"] # "chunk_raised"
        /\ pc["A"] = "chunk_done" => chunk.summary.total = 0

AllFailed(results) == FailedEntries(results) = 1..Len(results)

\* C38: for a non-empty batch the chunker never raises, whatever the device
\* does: when every slice failed and the recovery reconnections failed too it
\* still returns, no exception is pending, and the failure shows only in the
\* FAILED entries and in the summary (failed = total, none successful, 0.0%).
C38_AllFailedReturns ==
    Len(chunk.commands) > 0 =>
        /\ pc["A"] # "chunk_raised"
        /\ pc["A"] \in {"chunk_pause", "chunk_loop", "chunk_summary", "chunk_done"}
              => exc["A"] = NoExc
        /\ (pc["A"] = "chunk_done" /\ AllFailed(chunk.results)) =>
              /\ chunk.summary.total = Len(chunk.results)
              /\ chunk.summary.failed = chunk.summary.total
              /\ chunk.summary.successful = 0
              /\ chunk.summary.rate10 = 0

\* two slices, both failed, and the recovery reconnection after the last one
\* used up its three attempts: the chunker has returned its summary
C38_Witness ==
    /\ pc["A"] = "chunk_done"
    /\ Len(chunk.results) = 2
    /\ AllFailed(chunk.results)
    /\ hist["A"].rcExhausted
    /\ connection["A"] = 0
    /\ chunk.summary = [total |-> 2, successful |-> 0, failed |-> 2, rate10 |-> 0]

\* the batches of the fabric deployment builders: the main batch of
\* configure_spine_underlay (OSPF, BGP and interface commands, several dozen)
\* and the batch of deploy_multi_tenant_configuration
IsFabricBatch(t) ==
    \/ task_type[t] = "spine_underlay" /\ step[t] = 2
    \/ task_type[t] = "multi_tenant_deployment"

\* C33: a batch larger than the chunk size reaches the Interactive driver
\* through _execute_commands_in_chunks: whenever the driver runs a fabric
\* deployment batch, a call of the chunker is in progress.
C33_LargeBatchesChunked ==
    \A t \in Tasks :
        (pc[t] = "ecc_internal" /\ IsFabricBatch(t)) => chunk # ChunkIdle

\* the seconds _reconnect_if_needed has slept before its n-th attempt begins
\* (the time the transport calls take comes on top)
SleptBefore(t, n) == SumSeq(SubSeq(hist[t].rcWaits, 1, n - 1))

\* C34: once the caller's deadline is exceeded no new reconnection attempt is
\* started: for a caller that allows 1 second from the entry of
\* _reconnect_if_needed, every attempt made began while the time slept so far
\* was within that second.
C34_DeadlineStopsAttempts ==
    \A t \in Tasks :
        \A n \in 1..Len(hist[t].rcWaits) : SleptBefore(t, n) <= 1

------------------------------------------------------------------------------
(* Properties of the commit phase's outcome *)

------------------------------------------------------------------------------
(* Properties of the chunker's health checks *)

\* C31: the connection is health-checked (and reconnected if unhealthy) before
\* the first execution attempt of every slice after the first and before every
\* slice that follows a failed one; only the first slice of a batch without a
\* failure may be handed to execute_config_commands unchecked.
C31_CheckedBeforeSlice ==
    (chunk # ChunkIdle /\ pc["A"] = "ecc"
       /\ (chunk.chunk_num > 1 \/ chunk.failed_chunks > 0)) => chunk.checked

\* the slice just finished is a 5th one and not the last
AfterFifth == /\ chunk.chunk_num > 0
              /\ chunk.chunk_num % 5 = 0
              /\ chunk.chunk_num < chunk.total_chunks

\* the pause after the slice just finished is over: the loop index has moved on
PauseOver == pc["A"] = "chunk_loop" /\ chunk.i = chunk.chunk_num * chunk.chunk_size

\* C32: after every slice whose number is a multiple of 5 and that is not the
\* last one the connection is health-checked, whether or not a slice has
\* failed (and after no other slice); a reconnection is started exactly when
\* that check found the connection unhealthy; what the reconnection raises is
\* dropped, and the remaining slices are run and recorded.
C32_PeriodicCheck ==
    /\ PauseOver =>
          /\ AfterFifth <=> chunk.periodic \in {"healthy", "unhealthy"}
          /\ AfterFifth => (chunk.periodic = "unhealthy" <=> chunk.after = "periodic")
    /\ (pc["A"] \in {"rc", "rc_attempt", "chunk_recovered"}
          /\ rcRet["A"] = "chunk_recovered" /\ chunk.after = "periodic")
          => (AfterFifth /\ chunk.periodic = "unhealthy")
    /\ pc["A"] # "chunk_raised"
    /\ PauseOver => exc["A"] = NoExc
    /\ pc["A"] = "chunk_done" =>
          /\ Len(chunk.results) = chunk.total_chunks
          /\ chunk.summary.total = Len(chunk.commands)

\* six slices: the first five went through, the check after the fifth found
\* the session dead and the reconnection gave up after its three attempts;
\* slice 6 was still run and recorded, and the summary returned
C32_Witness ==
    /\ pc["A"] = "chunk_done"
    /\ Len(chunk.results) = 6
    /\ \A n \in 1..5 : ~chunk.results[n].failed
    /\ chunk.periodicFailed
    /\ chunk.results[6].failed
    /\ chunk.summary.failed = 1

------------------------------------------------------------------------------
(* Termination *)

\* the executions of the batch in the running call of execute_config_commands
\* and the attempts of the chunker's slice stay within their limits
ExecutionsBounded ==
    \A t \in Tasks :
        /\ hist[t].execs <= attempt[t] + 1
        /\ attempt[t] <= max_retries
        /\ hist[t].execs <= 3
        /\ ~hist[t].retriedOther
        /\ (chunk # ChunkIdle /\ pc[t] \in {"ecc", "ecc_internal", "ecc_after_rc"})
              => /\ chunk.attempt < max_chunk_retries
                 /\ chunk.attempt * (max_retries + 1) + hist[t].execs <= 9

==============================================================================
